---------------------------- MODULE Spec2Model ----------------------------
(***************************************************************************)
(* A model of backchannel-bot (src/src/backchannel_bot):                   *)
(*   - claude_client.py: ClaudeStreamSession.start / _read_stream, one     *)
(*     streaming turn over an external process that writes one JSON record *)
(*     per line; respond_to_permission; ClaudeClient.run_claude_print, one *)
(*     synchronous print-mode turn;                                        *)
(*   - tmux_client.py: strip_ansi and the TmuxClient operations;           *)
(*   - discord_client.py: chunk_message and BackchannelBot's handling of   *)
(*     the messages of a channel.                                          *)
(* Python strings are TLA+ strings (Len, SubSeq and \o act on them);       *)
(* decoded JSON values and Python objects are tagged records.              *)
(***************************************************************************)
EXTENDS Integers, Sequences, FiniteSets, TLC

(***************************************************************************)
(* Bounds of the model.                                                    *)
(***************************************************************************)
\* Lines the process writes to its stdout in one turn.
MaxLines == 2
\* Seconds the reader is observed blocked in a read.
MaxClock == 2
\* Calls of respond_to_permission in one turn.
MaxResponses == 2
\* Characters of a text given to strip_ansi.
MaxAnsiLen == 4
\* Characters of a text given to chunk_message, and its largest max_size.
MaxTextLen == 5
MaxChunk == 3
\* Messages the bot receives.
MaxMessages == 2
MaxCycles == 5

(***************************************************************************)
(* Python string operations.                                               *)
(***************************************************************************)
\* s[i:] for 0 <= i
SliceFrom(s, i) == IF i >= Len(s) THEN "" ELSE SubSeq(s, i + 1, Len(s))

\* s.startswith(p)
StartsWith(s, p) == Len(s) >= Len(p) /\ SubSeq(s, 1, Len(p)) = p

\* str.isspace() of one character, for the characters of the model
IsSpace(c) == c \in {" ", "\n", "\t", "\r"}

RECURSIVE RStrip(_)
\* s.rstrip()
RStrip(s) ==
    IF s = "" THEN ""
    ELSE IF IsSpace(SubSeq(s, Len(s), Len(s)))
         THEN RStrip(SubSeq(s, 1, Len(s) - 1))
         ELSE s

RECURSIVE LStrip(_)
\* s.lstrip()
LStrip(s) ==
    IF s = "" THEN ""
    ELSE IF IsSpace(SubSeq(s, 1, 1)) THEN LStrip(SliceFrom(s, 1)) ELSE s

\* s.strip()
Strip(s) == LStrip(RStrip(s))

\* c.lower() of one character
LowerChar(c) ==
    CASE c = "P" -> "p" [] c = "E" -> "e" [] c = "R" -> "r" [] c = "M" -> "m"
      [] c = "I" -> "i" [] c = "S" -> "s" [] c = "O" -> "o" [] c = "N" -> "n"
      [] c = "D" -> "d" [] c = "A" -> "a" [] c = "T" -> "t" [] c = "X" -> "x"
      [] c = "B" -> "b" [] c = "C" -> "c" [] c = "F" -> "f" [] c = "G" -> "g"
      [] c = "H" -> "h" [] c = "J" -> "j" [] c = "K" -> "k" [] c = "L" -> "l"
      [] c = "Q" -> "q" [] c = "U" -> "u" [] c = "V" -> "v" [] c = "W" -> "w"
      [] c = "Y" -> "y" [] c = "Z" -> "z"
      [] OTHER -> c

RECURSIVE Lower(_)
\* s.lower()
Lower(s) == IF s = "" THEN "" ELSE LowerChar(SubSeq(s, 1, 1)) \o Lower(SliceFrom(s, 1))

\* sub in s
Contains(s, sub) ==
    \E i \in 1..(Len(s) - Len(sub) + 1) : SubSeq(s, i, i + Len(sub) - 1) = sub

\* s[i] for 0 <= i < len(s), with i counted from 1
Ch(s, i) == SubSeq(s, i, i)

RECURSIVE SpanIn(_, _, _)
\* the first index from i on whose character is not in class, Len(s) + 1 if none
SpanIn(s, i, class) ==
    IF i > Len(s) \/ Ch(s, i) \notin class THEN i ELSE SpanIn(s, i + 1, class)

RECURSIVE Find(_, _, _)
\* the first index from i on whose character is c, Len(s) + 1 if none
Find(s, i, c) ==
    IF i > Len(s) \/ Ch(s, i) = c THEN i ELSE Find(s, i + 1, c)

(***************************************************************************)
(* strip_ansi: ANSI_ESCAPE_PATTERN.sub("", text).  The two control         *)
(* characters of the pattern are written with printable stand-ins.         *)
(***************************************************************************)
\* \x1b
ESC == "~"
\* \x07
BEL == "!"
Digits == {"0", "1", "2", "3", "4", "5", "6", "7", "8", "9"}
Letters ==
    {"A", "B", "C", "D", "E", "F", "G", "H", "I", "J", "K", "L", "M", "N", "O",
     "P", "Q", "R", "S", "T", "U", "V", "W", "X", "Y", "Z", "a", "b", "c", "d",
     "e", "f", "g", "h", "i", "j", "k", "l", "m", "n", "o", "p", "q", "r", "s",
     "t", "u", "v", "w", "x", "y", "z"}

\* MatchEnd taking an ESC that starts no sequence for a sequence of its own
MatchEnd_LoneEsc(s, i) ==
    LET n == Len(s)
        c == IF i + 1 <= n THEN Ch(s, i + 1) ELSE ""
    IN  IF c = "[" THEN LET j == SpanIn(s, i + 2, Digits \cup {";", "?"})
                        IN  IF j <= n /\ Ch(s, j) \in Letters THEN j ELSE i
        ELSE IF c = "]" THEN LET j == Find(s, i + 2, BEL)
                             IN  IF j <= n THEN j ELSE i
        ELSE IF c \in {"P", "X", "^", "_"}
             THEN LET j == Find(s, i + 2, ESC)
                  IN  IF j + 1 <= n /\ Ch(s, j + 1) = "\\" THEN j + 1 ELSE i
        ELSE IF c \in {"N", "O"}
             THEN IF i + 2 <= n /\ Ch(s, i + 2) # "\n" THEN i + 2 ELSE i
        ELSE IF c \in {"=", ">"} THEN i + 1
        ELSE i

\* the match of ANSI_ESCAPE_PATTERN at the ESC at index i of s: the index of
\* its last character, or 0 when the pattern does not match there
MatchEnd(s, i) ==
    LET n == Len(s)
        c == IF i + 1 <= n THEN Ch(s, i + 1) ELSE ""
    IN  IF c = "[" THEN LET j == SpanIn(s, i + 2, Digits \cup {";", "?"})
                        IN  IF j <= n /\ Ch(s, j) \in Letters THEN j ELSE 0
        ELSE IF c = "]" THEN LET j == Find(s, i + 2, BEL)
                             IN  IF j <= n THEN j ELSE 0
        ELSE IF c \in {"P", "X", "^", "_"}
             THEN LET j == Find(s, i + 2, ESC)
                  IN  IF j + 1 <= n /\ Ch(s, j + 1) = "\\" THEN j + 1 ELSE 0
        ELSE IF c \in {"N", "O"}
             THEN IF i + 2 <= n /\ Ch(s, i + 2) # "\n" THEN i + 2 ELSE 0
        ELSE IF c \in {"=", ">"} THEN i + 1
        ELSE 0

RECURSIVE StripFrom(_, _)
\* the scan of sub from index i: matches are dropped, left to right, and the
\* scan goes on after each match; other characters are kept
StripFrom(s, i) ==
    IF i > Len(s) THEN ""
    ELSE IF Ch(s, i) = ESC /\ MatchEnd(s, i) > 0 THEN StripFrom(s, MatchEnd(s, i) + 1)
    ELSE Ch(s, i) \o StripFrom(s, i + 1)

strip_ansi(s) == StripFrom(s, 1)

(***************************************************************************)
(* chunk_message (discord_client.py).                                      *)
(***************************************************************************)
MAX_CHUNK_SIZE == 1900

RECURSIVE RFindFrom(_, _, _)
\* the largest index <= i of s whose character is c, counted from 0; -1 if none
RFindFrom(s, c, i) ==
    IF i < 1 THEN -1
    ELSE IF Ch(s, i) = c THEN i - 1
    ELSE RFindFrom(s, c, i - 1)

\* s.rfind(c)
RFind(s, c) == RFindFrom(s, c, Len(s))

\* s[:n] for 0 <= n
SliceTo(s, n) == IF n >= Len(s) THEN s ELSE SubSeq(s, 1, n)

\* SplitPos starting from 0 rather than from the limit
SplitPos_NoFallback(rem, m) ==
    LET chunk == SliceTo(rem, m)
        last_newline == RFind(chunk, "\n")
        last_space == RFind(chunk, " ")
    IN  IF last_newline > 0 THEN last_newline + 1
        ELSE IF last_space > 0 THEN last_space + 1
        ELSE 0

\* SplitPos ignoring the limit when the chunk holds no newline and no space
SplitPos_PastLimit(rem, m) ==
    LET chunk == SliceTo(rem, m)
        last_newline == RFind(chunk, "\n")
        last_space == RFind(chunk, " ")
    IN  IF last_newline > 0 THEN last_newline + 1
        ELSE IF last_space > 0 THEN last_space + 1
        ELSE m + 1

\* split_pos of one iteration on a remaining longer than m
SplitPos(rem, m) ==
    LET chunk == SliceTo(rem, m)
        last_newline == RFind(chunk, "\n")
        last_space == RFind(chunk, " ")
    IN  IF last_newline > 0 THEN last_newline + 1
        ELSE IF last_space > 0 THEN last_space + 1
        ELSE m

\* ChunkStep dropping the character at the split position
ChunkStep_DropChar(rem, m) ==
    IF Len(rem) <= m THEN [chunk |-> rem, rest |-> rem, brk |-> TRUE]
    ELSE LET split_pos == SplitPos(rem, m)
         IN  [chunk |-> RStrip(SliceTo(rem, split_pos)),
              rest |-> LStrip(SliceFrom(rem, split_pos + 1)), brk |-> FALSE]

\* one iteration of the while loop on a non-empty remaining: the chunk
\* appended, the new remaining, and whether the loop breaks
ChunkStep(rem, m) ==
    IF Len(rem) <= m THEN [chunk |-> rem, rest |-> rem, brk |-> TRUE]
    ELSE LET split_pos == SplitPos(rem, m)
         IN  [chunk |-> RStrip(SliceTo(rem, split_pos)),
              rest |-> LStrip(SliceFrom(rem, split_pos)), brk |-> FALSE]

RECURSIVE ChunkLoop(_, _)
\* the chunks appended by the while loop entered with remaining = rem
ChunkLoop(rem, m) ==
    IF rem = "" THEN <<>>
    ELSE LET st == ChunkStep(rem, m)
         IN  <<st.chunk>> \o (IF st.brk THEN <<>> ELSE ChunkLoop(st.rest, m))

\* chunk_message(text, max_size)
chunk_message(txt, m) ==
    IF txt = "" THEN <<>>
    ELSE IF Len(txt) <= m THEN <<txt>>
    ELSE ChunkLoop(txt, m)

(***************************************************************************)
(* Python / JSON values: records tagged with their type.                   *)
(***************************************************************************)
PyNone == [tag |-> "none"]
PyStr(s) == [tag |-> "str", v |-> s]
PyBool(b) == [tag |-> "bool", v |-> b]
PyList(q) == [tag |-> "list", v |-> q]
\* a dict is a function from its keys (strings) to values
PyDict(d) == [tag |-> "dict", v |-> d]
EmptyDict == [k \in {} |-> PyNone]

\* d.get(key, default) on a dict value d
DictGet(d, key, default) == IF key \in DOMAIN d.v THEN d.v[key] ELSE default

\* bool(v)
Truthy(v) ==
    CASE v.tag = "none" -> FALSE
      [] v.tag = "bool" -> v.v
      [] v.tag = "str"  -> v.v # ""
      [] v.tag = "list" -> v.v # <<>>
      [] v.tag = "dict" -> DOMAIN v.v # {}
      [] OTHER -> TRUE

\* a == "literal" for a Python value a
EqStr(a, s) == a.tag = "str" /\ a.v = s

RECURSIVE ReprItems(_)
\* str(v): the text of a str, the repr of None, a bool, or a list of such
ToStr(v) ==
    CASE v.tag = "str"  -> v.v
      [] v.tag = "none" -> "None"
      [] v.tag = "bool" -> IF v.v THEN "True" ELSE "False"
      [] v.tag = "list" -> "[" \o ReprItems(v.v) \o "]"
      [] OTHER -> "{}"
ReprItems(q) ==
    IF q = <<>> THEN ""
    ELSE (IF Head(q).tag = "str" THEN "'" \o Head(q).v \o "'" ELSE "None")
         \o (IF Len(q) > 1 THEN ", " ELSE "") \o ReprItems(Tail(q))

(***************************************************************************)
(* Stdout lines of the process, as bytes up to and including the newline.  *)
(* A line is valid UTF-8 or not; its text is a JSON document or not; a     *)
(* JSON document decodes to the Python value val.                          *)
(***************************************************************************)
BadUtf8Line == [utf8 |-> FALSE, json |-> FALSE, val |-> PyNone]
NotJsonLine == [utf8 |-> TRUE, json |-> FALSE, val |-> PyNone]
JsonLine(v) == [utf8 |-> TRUE, json |-> TRUE, val |-> v]

\* json.loads(line.decode("utf-8").strip()): the exception it raises, or the value
Decode(line) ==
    IF ~line.utf8 THEN [exc |-> "UnicodeDecodeError", data |-> PyNone]
    ELSE IF ~line.json THEN [exc |-> "JSONDecodeError", data |-> PyNone]
    ELSE [exc |-> "", data |-> line.val]

(***************************************************************************)
(* ClaudeStreamMessage and PermissionRequest.                              *)
(***************************************************************************)
PermissionRequest(name, id, input) ==
    [tag |-> "PermissionRequest", tool_name |-> name, tool_use_id |-> id,
     tool_input |-> input]

ClaudeStreamMessage(type, subtype, data, perm, result, complete) ==
    [type |-> type, subtype |-> subtype, data |-> data,
     permission_request |-> perm, result |-> result, is_complete |-> complete]

\* IsPermissionDenial looking for 'permission' in lower case only
IsPermissionDenial_CaseSensitive(item) ==
    /\ item.tag = "dict"
    /\ EqStr(DictGet(item, "type", PyNone), "tool_result")
    /\ Truthy(DictGet(item, "is_error", PyNone))
    /\ Contains(ToStr(DictGet(item, "content", PyStr(""))), "permission")

\* the condition of the permission-denial test on one item of a user content list
IsPermissionDenial(item) ==
    /\ item.tag = "dict"
    /\ EqStr(DictGet(item, "type", PyNone), "tool_result")
    /\ Truthy(DictGet(item, "is_error", PyNone))
    /\ Contains(Lower(ToStr(DictGet(item, "content", PyStr("")))), "permission")

RECURSIVE DeniedEvents(_, _)
\* the permission_denied messages yielded for the items of a user content list
DeniedEvents(items, data) ==
    IF items = <<>> THEN <<>>
    ELSE (IF IsPermissionDenial(Head(items))
          THEN <<ClaudeStreamMessage(PyStr("permission_denied"), PyNone, data,
                                     PyNone, PyNone, FALSE)>>
          ELSE <<>>)
         \o DeniedEvents(Tail(items), data)

\* RequestEvent with the completion flag of the terminal message copied onto it
RequestEvent_Complete(denial, data) ==
    ClaudeStreamMessage(
        PyStr("permission_request"), PyNone, data,
        PermissionRequest(DictGet(denial, "tool_name", PyStr("")),
                          DictGet(denial, "tool_use_id", PyStr("")),
                          DictGet(denial, "tool_input", PyDict(EmptyDict))),
        PyNone, TRUE)

\* the permission_request message built from one entry of permission_denials
RequestEvent(denial, data) ==
    ClaudeStreamMessage(
        PyStr("permission_request"), PyNone, data,
        PermissionRequest(DictGet(denial, "tool_name", PyStr("")),
                          DictGet(denial, "tool_use_id", PyStr("")),
                          DictGet(denial, "tool_input", PyDict(EmptyDict))),
        PyNone, FALSE)

RECURSIVE RequestEvents(_, _)
\* the loop over permission_denials: the messages yielded, and the exception
\* that ends it when an entry has no get method
RequestEvents(denials, data) ==
    IF denials = <<>> THEN [events |-> <<>>, exc |-> ""]
    ELSE IF Head(denials).tag # "dict" THEN [events |-> <<>>, exc |-> "AttributeError"]
    ELSE LET rest == RequestEvents(Tail(denials), data)
         IN  [events |-> <<RequestEvent(Head(denials), data)>> \o rest.events,
              exc |-> rest.exc]

\* the terminal message of a result line
ResultEvent(data) ==
    ClaudeStreamMessage(PyStr("result"), PyNone, data, PyNone,
                        DictGet(data, "result", PyStr("")), TRUE)

\* ResultBranch yielding the terminal message before the permission requests
ResultBranch_ResultFirst(data) ==
    LET denials == DictGet(data, "permission_denials", PyList(<<>>))
        reqs == IF ~Truthy(denials) THEN [events |-> <<>>, exc |-> ""]
                ELSE IF denials.tag = "list" THEN RequestEvents(denials.v, data)
                ELSE [events |-> <<>>, exc |-> "AttributeError"]
    IN  [events |-> <<ResultEvent(data)>> \o reqs.events, after |-> "break"]

\* the body of the result branch: permission requests, then the terminal message
ResultBranch(data) ==
    LET denials == DictGet(data, "permission_denials", PyList(<<>>))
        reqs == IF ~Truthy(denials) THEN [events |-> <<>>, exc |-> ""]
                ELSE IF denials.tag = "list" THEN RequestEvents(denials.v, data)
                ELSE IF denials.tag \in {"str", "dict"}
                     THEN [events |-> <<>>, exc |-> "AttributeError"]
                ELSE [events |-> <<>>, exc |-> "TypeError"]
    IN  IF reqs.exc # "" THEN [events |-> reqs.events, after |-> reqs.exc]
        ELSE [events |-> reqs.events \o <<ResultEvent(data)>>, after |-> "break"]

\* the body of the user branch: the exception it raises, or the messages yielded
UserBranch(data) ==
    LET message == DictGet(data, "message", PyDict(EmptyDict))
    IN  IF message.tag # "dict" THEN [events |-> <<>>, exc |-> "AttributeError"]
        ELSE LET content == DictGet(message, "content", PyList(<<>>))
             IN  IF content.tag = "list"
                 THEN [events |-> DeniedEvents(content.v, data), exc |-> ""]
                 ELSE [events |-> <<>>, exc |-> ""]

(***************************************************************************)
(* One iteration of the loop of _read_stream on a line that was read:      *)
(* the messages it yields in order, how the iteration ends ("continue",    *)
(* "break" or the exception raised), and the assignment to _session_id.    *)
(***************************************************************************)
ReadStreamLine(line) ==
    LET d == Decode(line)
        data == d.data
        none == [events |-> <<>>, setsid |-> FALSE, sid |-> PyNone]
    IN  IF d.exc = "JSONDecodeError" THEN none @@ [after |-> "continue"]
        ELSE IF d.exc # "" THEN none @@ [after |-> d.exc]
        ELSE IF data.tag # "dict" THEN none @@ [after |-> "AttributeError"]
        ELSE LET msg_type == DictGet(data, "type", PyStr(""))
                 msg_subtype == DictGet(data, "subtype", PyNone)
                 init == EqStr(msg_type, "system") /\ EqStr(msg_subtype, "init")
                 ids == [setsid |-> init, sid |-> DictGet(data, "session_id", PyNone)]
                 user == IF EqStr(msg_type, "user") THEN UserBranch(data)
                         ELSE [events |-> <<>>, exc |-> ""]
             IN  IF user.exc # "" THEN ids @@ [events |-> user.events, after |-> user.exc]
                 ELSE IF EqStr(msg_type, "result")
                 THEN LET r == ResultBranch(data)
                      IN  ids @@ [events |-> user.events \o r.events, after |-> r.after]
                 ELSE ids @@ [events |-> user.events \o
                                 <<ClaudeStreamMessage(msg_type, msg_subtype, data,
                                                       PyNone, PyNone, FALSE)>>,
                              after |-> "continue"]

(***************************************************************************)
(* Command lines.                                                          *)
(***************************************************************************)
\* StartCmd slicing the session id one character early
StartCmd_Slice6(p, mode) ==
    <<"claude", "-p", p, "--input-format", "stream-json", "--output-format",
      "stream-json", "--verbose", "--dangerously-skip-permissions">>
    \o (IF mode = "continue" THEN <<"--continue">>
        ELSE IF StartsWith(mode, "resume:") THEN <<"--resume", SliceFrom(mode, 6)>>
        ELSE <<>>)

\* cmd of ClaudeStreamSession.start
StartCmd(p, mode) ==
    <<"claude", "-p", p, "--input-format", "stream-json", "--output-format",
      "stream-json", "--verbose", "--dangerously-skip-permissions">>
    \o (IF mode = "continue" THEN <<"--continue">>
        ELSE IF StartsWith(mode, "resume:") THEN <<"--resume", SliceFrom(mode, 7)>>
        ELSE <<>>)

\* cmd of ClaudeClient.run_claude_print
PrintCmd(p, mode) ==
    <<"claude", "-p", p, "--dangerously-skip-permissions">>
    \o (IF mode = "continue" THEN <<"--continue">>
        ELSE IF StartsWith(mode, "resume:") THEN <<"--resume", SliceFrom(mode, 7)>>
        ELSE <<>>)

NotInstalled == "ClaudeError: Claude Code is not installed"
TimedOut(t) == "ClaudeError: Claude command timed out after " \o ToString(t) \o " seconds"
CommandFailed(msg) == "ClaudeError: Claude command failed: " \o msg
FailedToExecute(e) == "ClaudeError: Failed to execute claude command: " \o e

\* the default timeout of run_claude_print
DEFAULT_TIMEOUT == 300

\* how run_claude_print(prompt, t, mode) ends when subprocess.run meets run:
\* the text returned, or the exception raised
PrintEnding(run, t) ==
    CASE run.kind = "exit" ->
           IF run.returncode = 0
           THEN [outcome |-> "returned", returned |-> RStrip(run.stdout)]
           ELSE [outcome |-> CommandFailed(IF Strip(run.stderr) # ""
                                           THEN Strip(run.stderr)
                                           ELSE "command failed"),
                 returned |-> ""]
      [] run.kind = "notfound" -> [outcome |-> NotInstalled, returned |-> ""]
      [] run.kind = "timeout" -> [outcome |-> TimedOut(t), returned |-> ""]
      [] run.kind = "suberror" -> [outcome |-> FailedToExecute(run.msg), returned |-> ""]
      [] OTHER -> [outcome |-> "OSError", returned |-> ""]

\* str(e) of the ClaudeError written as outcome
ErrorText(outcome) == SliceFrom(outcome, Len("ClaudeError: "))

(***************************************************************************)
(* BackchannelBot (discord_client.py): the texts it sends and the          *)
(* !session command.  The two emoji of the texts are written with          *)
(* printable stand-ins, and the backquote is written as a vertical bar.    *)
(***************************************************************************)
\* U+274C
CROSS == "[x]"
\* U+2705
CHECK == "[v]"

UnexpectedText == CROSS \o " An unexpected error occurred. Please try again."
ClaudeErrorText(e) == CROSS \o " Claude error: " \o e
NoSessionsText ==
    "No Claude sessions found for this directory.\n"
    \o "Sessions are created when you run |claude| interactively."

\* s.split()[0] of a text that is not all whitespace
FirstWord(s) ==
    LET t == LStrip(s) IN SliceTo(t, SpanIn(t, 1, {c \in {Ch(t, i) : i \in 1..Len(t)} : ~IsSpace(c)}) - 1)

\* s.split(maxsplit=1): the first word, then the rest without the whitespace
\* before it, when there is a rest
SplitOnce(s) ==
    LET first == FirstWord(s)
        rest == LStrip(SliceFrom(LStrip(s), Len(first)))
    IN  IF rest = "" THEN <<first>> ELSE <<first, rest>>

\* s.isdigit(), for ASCII text
IsDigit(s) == s # "" /\ \A i \in 1..Len(s) : Ch(s, i) \in Digits

DigitValue(c) ==
    CASE c = "0" -> 0 [] c = "1" -> 1 [] c = "2" -> 2 [] c = "3" -> 3 [] c = "4" -> 4
      [] c = "5" -> 5 [] c = "6" -> 6 [] c = "7" -> 7 [] c = "8" -> 8 [] OTHER -> 9

RECURSIVE ToInt(_)
\* int(s) of a text of digits
ToInt(s) ==
    IF s = "" THEN 0 ELSE 10 * ToInt(SliceTo(s, Len(s) - 1)) + DigitValue(Ch(s, Len(s)))

\* s.count(c)
Count(s, c) == Cardinality({i \in 1..Len(s) : Ch(s, i) = c})

RECURSIVE SessionLines(_, _)
\* the two lines per session of the list, from the i-th session on
SessionLines(sessions, i) ==
    IF i > Len(sessions) THEN <<>>
    ELSE LET session == sessions[i]
             p == IF Len(session.first_prompt) > 50
                  THEN SliceTo(session.first_prompt, 47) \o "..."
                  ELSE session.first_prompt
         IN  <<ToString(i) \o ". |" \o session.id \o "| (" \o session.timestamp \o ")",
               "   " \o p \o "\n">>
             \o SessionLines(sessions, i + 1)

RECURSIVE JoinLines(_)
\* "\n".join(lines)
JoinLines(lines) ==
    IF lines = <<>> THEN ""
    ELSE IF Len(lines) = 1 THEN lines[1]
    ELSE lines[1] \o "\n" \o JoinLines(Tail(lines))

\* the text of the session list
SessionListText(sessions, mode) ==
    JoinLines(<<"**Recent Claude Sessions:**\n">> \o SessionLines(sessions, 1)
              \o <<"\n**Current mode:** " \o mode,
                   "\nTo switch: |!session <number>| or |!session <id>|">>)

ResumeSetText(id) ==
    CHECK \o " Session mode set to resume |" \o SliceTo(id, 8) \o "...|\n"
    \o "Future messages will continue that session."

\* SessionCommand resuming whatever argument it does not recognise
SessionCommand_ResumesAnyArg(content, mode, sessions) ==
    LET parts == SplitOnce(content)
    IN  IF Len(parts) = 1
        THEN [text |-> IF sessions = <<>> THEN NoSessionsText
                       ELSE SessionListText(sessions, mode),
              mode |-> mode]
        ELSE LET arg == Strip(parts[2])
             IN  IF IsDigit(arg)
                 THEN IF sessions # <<>> /\ 1 <= ToInt(arg) /\ ToInt(arg) <= Len(sessions)
                      THEN [text |-> ResumeSetText(sessions[ToInt(arg)].id),
                            mode |-> "resume:" \o sessions[ToInt(arg)].id]
                      ELSE [text |-> CROSS \o " Invalid session number: |" \o arg \o "|\n"
                                     \o "Run |!session| to see available sessions.",
                            mode |-> mode]
                 ELSE IF Lower(arg) \in {"continue", "fresh"}
                 THEN [text |-> CHECK \o " Session mode set to |" \o Lower(arg) \o "|",
                       mode |-> Lower(arg)]
                 ELSE [text |-> CROSS \o " Invalid session ID: |" \o arg \o "|\n"
                                \o "Use a number, full session UUID, or 'continue' / 'fresh'.",
                       mode |-> "resume:" \o arg]

\* SessionCommand storing the mode keyword as it was typed
SessionCommand_KeepCase(content, mode, sessions) ==
    LET parts == SplitOnce(content)
    IN  IF Len(parts) = 1
        THEN [text |-> IF sessions = <<>> THEN NoSessionsText
                       ELSE SessionListText(sessions, mode),
              mode |-> mode]
        ELSE LET arg == Strip(parts[2])
             IN  IF IsDigit(arg)
                 THEN IF sessions # <<>> /\ 1 <= ToInt(arg) /\ ToInt(arg) <= Len(sessions)
                      THEN [text |-> ResumeSetText(sessions[ToInt(arg)].id),
                            mode |-> "resume:" \o sessions[ToInt(arg)].id]
                      ELSE [text |-> CROSS \o " Invalid session number: |" \o arg \o "|\n"
                                     \o "Run |!session| to see available sessions.",
                            mode |-> mode]
                 ELSE IF Len(arg) = 36 /\ Count(arg, "-") = 4
                 THEN [text |-> ResumeSetText(arg), mode |-> "resume:" \o arg]
                 ELSE IF Lower(arg) \in {"continue", "fresh"}
                 THEN [text |-> CHECK \o " Session mode set to |" \o Lower(arg) \o "|",
                       mode |-> arg]
                 ELSE [text |-> CROSS \o " Invalid session ID: |" \o arg \o "|\n"
                                \o "Use a number, full session UUID, or 'continue' / 'fresh'.",
                       mode |-> mode]

\* _handle_session_command up to its send_response: the text it sends and
\* the session mode it leaves in the configuration
SessionCommand(content, mode, sessions) ==
    LET parts == SplitOnce(content)
    IN  IF Len(parts) = 1
        THEN [text |-> IF sessions = <<>> THEN NoSessionsText
                       ELSE SessionListText(sessions, mode),
              mode |-> mode]
        ELSE LET arg == Strip(parts[2])
             IN  IF IsDigit(arg)
                 THEN IF sessions # <<>> /\ 1 <= ToInt(arg) /\ ToInt(arg) <= Len(sessions)
                      THEN [text |-> ResumeSetText(sessions[ToInt(arg)].id),
                            mode |-> "resume:" \o sessions[ToInt(arg)].id]
                      ELSE [text |-> CROSS \o " Invalid session number: |" \o arg \o "|\n"
                                     \o "Run |!session| to see available sessions.",
                            mode |-> mode]
                 ELSE IF Len(arg) = 36 /\ Count(arg, "-") = 4
                 THEN [text |-> ResumeSetText(arg), mode |-> "resume:" \o arg]
                 ELSE IF Lower(arg) \in {"continue", "fresh"}
                 THEN [text |-> CHECK \o " Session mode set to |" \o Lower(arg) \o "|",
                       mode |-> Lower(arg)]
                 ELSE [text |-> CROSS \o " Invalid session ID: |" \o arg \o "|\n"
                                \o "Use a number, full session UUID, or 'continue' / 'fresh'.",
                       mode |-> mode]

\* _handle_command up to its send_response; an unknown command sends nothing
HandleCommand(content, mode, sessions) ==
    IF Lower(FirstWord(content)) = "!session"
    THEN SessionCommand(content, mode, sessions)
    ELSE [text |-> "", mode |-> mode]

\* _handle_command reaches a call of list_claude_sessions: !session with
\* no argument or with a number
ListsSessions(content) ==
    /\ Lower(FirstWord(content)) = "!session"
    /\ LET parts == SplitOnce(content)
       IN  Len(parts) = 1 \/ IsDigit(Strip(parts[2]))

(***************************************************************************)
(* State.                                                                  *)
(***************************************************************************)
VARIABLES
    turn,         \* "none", "stream" (start) or "print" (run_claude_print)
    pc,           \* where the turn is: "idle", "reading" (awaiting readline),
                  \* "yielded" (suspended at the yield of start), "waiting"
                  \* (awaiting process.wait() in the finally block), "done"
    outcome,      \* how the call ends: "none" while undecided, "returned",
                  \* or the exception that leaves it
    returned,     \* <<text>> once run_claude_print has returned text
    prompt, session_mode, timeout,   \* the arguments of the call
    cmd,          \* the argument vector of the launch
    sub,          \* what the launch / subprocess.run met
    procState,    \* the process: "none", "running", "exited"
    termSent,     \* terminate() was called on the process
    stdout,       \* lines written by the process and not yet read
    eof,          \* the write end of stdout is closed
    consumed,     \* lines returned by readline so far
    pending,      \* messages the current line has still to yield
    after,        \* how the current line's iteration ends
    events,       \* messages yielded to the consumer of start, in order
    session_id,   \* self._session_id
    elapsed       \* seconds spent blocked in a read

VARIABLES
    stdin,        \* what was written to the stdin pipe of the process
    warnings,     \* the warnings logged by the session, in order
    text,         \* the text given to strip_ansi or to chunk_message
    stripped,     \* <<strip_ansi(text)>> once it has returned
    tmux,         \* the last call on the TmuxClient and how it ended
    chunking,     \* where chunk_message is: "input" (not called), "loop"
                  \* (at the head of its while loop), "returned"
    max_size,     \* the max_size of the call
    remaining,    \* the local remaining
    chunks,       \* the local chunks, returned at the end
    config,       \* the bot's Config
    handlers,     \* the on_message task of each message received
    perm,         \* the call of _request_permission
    poll          \* the call of the quiescence poller

\* the state of the Claude client
clientVars == <<turn, pc, outcome, returned, prompt, session_mode, timeout, cmd,
                sub, procState, termSent, stdout, eof, consumed, pending, after,
                events, session_id, elapsed>>
ioVars == <<stdin, warnings>>
\* the state outside the Claude client
textVars == <<text, stripped>>
chunkVars == <<chunking, max_size, remaining, chunks>>
sideVars == <<perm, poll>>
botVars == <<config, handlers, sideVars>>
outside == <<textVars, tmux, chunkVars, botVars>>

vars == <<clientVars, ioVars, outside>>

callVars == <<turn, prompt, session_mode, timeout, cmd, sub>>
streamVars == <<stdout, eof, consumed, pending, after, events, session_id>>

\* a message of the channel, and the task that handles it: pc is "none"
\* (not received), "typing" (awaiting the typing indicator), "claude"
\* (awaiting run_claude_print in the executor), "sending" (awaiting
\* channel.send in send_response) or "done"
NoMessage == [bot |-> FALSE, channel |-> "", author |-> "", content |-> ""]
NoHandler ==
    [pc |-> "none", msg |-> NoMessage,
     typed |-> FALSE,    \* the typing() block was entered
     proc |-> "none",    \* the Claude process of the task: "none", "running", "finished"
     calls |-> <<>>,     \* the arguments of each call of run_claude_print
     ran |-> <<>>,       \* what subprocess.run met in the call
     ctx |-> "",         \* which send_response is running
     chunks |-> <<>>,    \* the chunks send_response has still to send
     sent |-> <<>>,      \* the texts passed to channel.send
     listed |-> <<>>,    \* <<what list_claude_sessions returned>>, when called
     end |-> ""]         \* how on_message ended: "returned" or the exception

\* q[-1]
Last(q) == q[Len(q)]

\* a call of _request_permission: pc is "none" (not called), "sending"
\* (awaiting channel.send in send_response), "adding" (awaiting
\* add_reaction), "waiting" (awaiting wait_for), "editing" (awaiting
\* perm_message.edit) or "done"
NoPermission ==
    [pc |-> "none",
     author_id |-> "",    \* the user who should respond
     chunks |-> <<>>,     \* the chunks send_response has still to send
     messages |-> <<>>,   \* the messages send_response has sent
     added |-> <<>>,      \* the reactions added to perm_message
     clock |-> 0,         \* seconds since wait_for was called
     matched |-> <<>>,    \* <<the reaction wait_for returned>>
     expired |-> FALSE,   \* wait_for raised TimeoutError
     edits |-> <<>>,      \* the result texts perm_message.edit was called with
     result |-> <<>>,     \* <<the value returned>>
     end |-> ""]          \* how the call ended: "returned" or the exception
\* a call of the poller, before it starts
NoPoll == [pc |-> "none"]

Init ==
    /\ turn = "none" /\ pc = "idle" /\ outcome = "none" /\ returned = <<>>
    /\ prompt = "" /\ session_mode = "" /\ timeout = 0 /\ cmd = <<>>
    /\ sub = [kind |-> "none"]
    /\ procState = "none" /\ termSent = FALSE
    /\ stdout = <<>> /\ eof = FALSE /\ consumed = <<>>
    /\ pending = <<>> /\ after = "" /\ events = <<>>
    /\ session_id = PyNone /\ elapsed = 0
    /\ stdin = <<>> /\ warnings = <<>>
    /\ text = "" /\ stripped = <<>>
    /\ tmux = [op |-> "none"]
    /\ chunking = "input" /\ max_size = 0 /\ remaining = "" /\ chunks = <<>>
    /\ config = [claude_session_mode |-> "continue",
                 discord_channel_id |-> PyStr("c1"),
                 discord_allowed_user_id |-> PyNone]
    /\ handlers = [i \in 1..MaxMessages |-> NoHandler]
    /\ perm = NoPermission
    /\ poll = NoPoll

(***************************************************************************)
(* Inputs: the arguments of a turn and the lines a process may write.      *)
(***************************************************************************)
Prompts == {"hello", "--continue"}
SessionModes == {"fresh", "continue", "resume:abc-123", "resume:", "new"}
Timeouts == {1, 300}
\* the arguments of the streaming turns whose whole stream is explored
StreamPrompts == {"hello"}
StreamModes == {"continue", "resume:abc-123"}
StreamTimeouts == {1}

InitLine(sid) ==
    JsonLine(PyDict([type |-> PyStr("system"), subtype |-> PyStr("init"),
                     session_id |-> PyStr(sid)]))
AssistantLine == JsonLine(PyDict([type |-> PyStr("assistant")]))
ToolResult(err, txt) ==
    PyDict([type |-> PyStr("tool_result"), is_error |-> PyBool(err),
            content |-> PyStr(txt)])
UserLine(items) ==
    JsonLine(PyDict([type |-> PyStr("user"),
                     message |-> PyDict([content |-> PyList(items)])]))
Denial(name, id) ==
    PyDict([tool_name |-> PyStr(name), tool_use_id |-> PyStr(id),
            tool_input |-> PyDict([command |-> PyStr("ls")])])
ResultLine(txt, denials) ==
    JsonLine(PyDict([type |-> PyStr("result"), result |-> PyStr(txt),
                     permission_denials |-> PyList(denials)]))
ResultOnlyLine(txt) ==
    JsonLine(PyDict([type |-> PyStr("result"), result |-> PyStr(txt)]))
\* the JSON document "not json" (a string, quotes included)
ScalarLine == JsonLine(PyStr("not json"))

StreamLines ==
    { NotJsonLine, BadUtf8Line, ScalarLine,
      InitLine("s1"), InitLine("s2"), AssistantLine,
      UserLine(<<ToolResult(TRUE, "Permission denied")>>),
      ResultLine("done", <<>>),
      ResultLine("x", <<Denial("Bash", "abc"), Denial("Write", "def")>>),
      ResultOnlyLine("done") }

\* what subprocess.run meets in run_claude_print
RunOutcomes ==
    [kind : {"exit"}, returncode : {0, 1, 2},
     stdout : {"", "Claude response\n", " a b \n\n"},
     stderr : {"", "error message\n", " \n"}]
    \cup {[kind |-> "notfound"], [kind |-> "timeout"],
          [kind |-> "suberror", msg |-> "boom"], [kind |-> "oserror"]}

(***************************************************************************)
(* ClaudeStreamSession.start                                               *)
(***************************************************************************)
\* Finally terminating the process without awaiting its exit
Finally_NoWait(result) ==
    /\ outcome' = result
    /\ termSent' = (termSent \/ procState = "running")
    /\ pc' = "done"

\* the finally block of start, entered with the way the try statement ends
Finally(result) ==
    /\ outcome' = result
    /\ IF procState = "running"
       THEN termSent' = TRUE /\ pc' = "waiting"
       ELSE UNCHANGED termSent /\ pc' = "done"

\* an exception exc leaves the try body of start
Except(exc) ==
    IF exc = "TimeoutError"
    THEN /\ outcome' = TimedOut(timeout)
         /\ termSent' = TRUE
         /\ pc' = IF procState = "running" THEN "waiting" ELSE "done"
    ELSE Finally(exc)

\* the iteration of _read_stream's loop ends with how: the loop goes on,
\* the generator ends, or an exception reaches start
EndIteration(how) ==
    IF how = "continue" THEN pc' = "reading" /\ UNCHANGED <<outcome, termSent>>
    ELSE IF how = "break" THEN Finally("returned")
    ELSE Except(how)

\* Start without the handler of FileNotFoundError
Start_NoCatch(p, mode, t, found) ==
    /\ pc = "idle"
    /\ turn' = "stream" /\ prompt' = p /\ session_mode' = mode /\ timeout' = t
    /\ cmd' = StartCmd(p, mode)
    /\ IF found
       THEN /\ sub' = [kind |-> "spawned"]
            /\ procState' = "running" /\ pc' = "reading"
            /\ UNCHANGED outcome
       ELSE /\ sub' = [kind |-> "notfound"]
            /\ pc' = "done" /\ outcome' = "FileNotFoundError"
            /\ UNCHANGED procState
    /\ UNCHANGED <<returned, termSent, streamVars, elapsed,
                   ioVars, outside>>

\* start(prompt, session_mode, timeout) up to its first read
Start(p, mode, t, found) ==
    /\ pc = "idle"
    /\ turn' = "stream" /\ prompt' = p /\ session_mode' = mode /\ timeout' = t
    /\ cmd' = StartCmd(p, mode)
    /\ IF found
       THEN /\ sub' = [kind |-> "spawned"]
            /\ procState' = "running" /\ pc' = "reading"
            /\ UNCHANGED outcome
       ELSE /\ sub' = [kind |-> "notfound"]
            /\ pc' = "done" /\ outcome' = NotInstalled
            /\ UNCHANGED procState
    /\ UNCHANGED <<returned, termSent, streamVars, elapsed,
                   ioVars, outside>>

\* readline returns a line: _read_stream runs to its first yield on it, or
\* through the whole iteration when the line yields nothing
ReadLine ==
    /\ pc = "reading" /\ stdout # <<>>
    /\ LET line == Head(stdout)
           r == ReadStreamLine(line)
       IN  /\ stdout' = Tail(stdout)
           /\ consumed' = Append(consumed, line)
           /\ session_id' = IF r.setsid THEN r.sid ELSE session_id
           /\ IF r.events # <<>>
              THEN /\ events' = Append(events, Head(r.events))
                   /\ pending' = Tail(r.events) /\ after' = r.after
                   /\ pc' = "yielded"
                   /\ UNCHANGED <<outcome, termSent>>
              ELSE /\ EndIteration(r.after)
                   /\ UNCHANGED <<events, pending, after>>
    /\ UNCHANGED <<callVars, returned, procState, eof, elapsed,
                   ioVars, outside>>

\* readline returns b"": the loop of _read_stream breaks and start's loop ends
ReadEof ==
    /\ pc = "reading" /\ stdout = <<>> /\ eof
    /\ Finally("returned")
    /\ UNCHANGED <<callVars, returned, procState, streamVars, elapsed,
                   ioVars, outside>>

\* the consumer asks for the next message: start breaks on a complete message,
\* else _read_stream resumes after its yield
Resume ==
    /\ pc = "yielded"
    /\ IF events[Len(events)].is_complete
       THEN Finally("returned") /\ UNCHANGED <<events, pending, after>>
       ELSE IF pending # <<>>
       THEN /\ events' = Append(events, Head(pending))
            /\ pending' = Tail(pending)
            /\ UNCHANGED <<pc, outcome, termSent, after>>
       ELSE EndIteration(after) /\ UNCHANGED <<events, pending, after>>
    /\ UNCHANGED <<callVars, returned, procState, stdout, eof, consumed,
                   session_id, elapsed,
                   ioVars, outside>>

\* the consumer stops iterating: the generator is closed at its yield
Abandon ==
    /\ pc = "yielded"
    /\ Except("GeneratorExit")
    /\ UNCHANGED <<callVars, returned, procState, streamVars, elapsed,
                   ioVars, outside>>

\* the task iterating start is cancelled while it awaits a line
Cancel ==
    /\ pc = "reading"
    /\ Except("CancelledError")
    /\ UNCHANGED <<callVars, returned, procState, streamVars, elapsed,
                   ioVars, outside>>

\* process.wait() returns in the finally block
WaitDone ==
    /\ pc = "waiting" /\ procState = "exited"
    /\ pc' = "done"
    /\ UNCHANGED <<callVars, outcome, returned, procState, termSent, streamVars,
                   elapsed,
                   ioVars, outside>>

(***************************************************************************)
(* The process and the clock.                                              *)
(***************************************************************************)
ProcWrite(line) ==
    /\ procState = "running" /\ ~eof /\ ~termSent
    /\ Len(consumed) + Len(stdout) < MaxLines
    /\ stdout' = Append(stdout, line)
    /\ UNCHANGED <<callVars, pc, outcome, returned, procState, termSent, eof,
                   consumed, pending, after, events, session_id, elapsed,
                   ioVars, outside>>

ProcCloseStdout ==
    /\ procState = "running" /\ ~eof /\ ~termSent
    /\ eof' = TRUE
    /\ UNCHANGED <<callVars, pc, outcome, returned, procState, termSent, stdout,
                   consumed, pending, after, events, session_id, elapsed,
                   ioVars, outside>>

ProcExit ==
    /\ procState = "running"
    /\ procState' = "exited" /\ eof' = TRUE
    /\ UNCHANGED <<callVars, pc, outcome, returned, termSent, stdout,
                   consumed, pending, after, events, session_id, elapsed,
                   ioVars, outside>>

\* a second passes while readline is blocked on an open, empty pipe
Tick ==
    /\ pc = "reading" /\ stdout = <<>> /\ ~eof
    /\ elapsed < MaxClock
    /\ elapsed' = elapsed + 1
    /\ UNCHANGED <<callVars, pc, outcome, returned, procState, termSent,
                   streamVars,
                   ioVars, outside>>

(***************************************************************************)
(* ClaudeClient.run_claude_print                                           *)
(***************************************************************************)
\* RunClaudePrint returning stdout whatever the exit code
RunClaudePrint_IgnoreCode(p, t, mode, run) ==
    /\ pc = "idle"
    /\ turn' = "print" /\ prompt' = p /\ session_mode' = mode /\ timeout' = t
    /\ cmd' = PrintCmd(p, mode)
    /\ sub' = run
    /\ pc' = "done"
    /\ CASE run.kind = "exit" ->
              outcome' = "returned" /\ returned' = <<RStrip(run.stdout)>>
         [] run.kind = "notfound" -> outcome' = NotInstalled /\ UNCHANGED returned
         [] run.kind = "timeout" -> outcome' = TimedOut(t) /\ UNCHANGED returned
         [] run.kind = "suberror" ->
              outcome' = FailedToExecute(run.msg) /\ UNCHANGED returned
         [] OTHER -> outcome' = "OSError" /\ UNCHANGED returned
    /\ UNCHANGED <<procState, termSent, streamVars, elapsed,
                   ioVars, outside>>

\* run_claude_print(prompt, timeout, session_mode), with what subprocess.run meets
RunClaudePrint(p, t, mode, run) ==
    /\ pc = "idle"
    /\ turn' = "print" /\ prompt' = p /\ session_mode' = mode /\ timeout' = t
    /\ cmd' = PrintCmd(p, mode)
    /\ sub' = run
    /\ pc' = "done"
    /\ CASE run.kind = "exit" ->
              IF run.returncode = 0
              THEN outcome' = "returned" /\ returned' = <<RStrip(run.stdout)>>
              ELSE /\ outcome' = CommandFailed(IF Strip(run.stderr) # ""
                                               THEN Strip(run.stderr)
                                               ELSE "command failed")
                   /\ UNCHANGED returned
         [] run.kind = "notfound" -> outcome' = NotInstalled /\ UNCHANGED returned
         [] run.kind = "timeout" -> outcome' = TimedOut(t) /\ UNCHANGED returned
         [] run.kind = "suberror" ->
              outcome' = FailedToExecute(run.msg) /\ UNCHANGED returned
         [] OTHER -> outcome' = "OSError" /\ UNCHANGED returned
    /\ UNCHANGED <<procState, termSent, streamVars, elapsed,
                   ioVars, outside>>

Next ==
    \/ \E p \in StreamPrompts, mode \in StreamModes, t \in StreamTimeouts,
          found \in BOOLEAN : Start(p, mode, t, found)
    \/ ReadLine
    \/ ReadEof
    \/ Resume
    \/ Abandon
    \/ Cancel
    \/ WaitDone
    \/ \E line \in StreamLines : ProcWrite(line)
    \/ ProcCloseStdout
    \/ ProcExit
    \/ Tick
    \/ \E p \in Prompts, t \in Timeouts, mode \in SessionModes,
          run \in RunOutcomes : RunClaudePrint(p, t, mode, run)

Spec == Init /\ [][Next]_vars

(***************************************************************************)
(* Launching alone: both entry points over all their arguments.            *)
(***************************************************************************)
LaunchNext ==
    \/ \E p \in Prompts, mode \in SessionModes, t \in Timeouts,
          found \in BOOLEAN : Start(p, mode, t, found)
    \/ \E p \in Prompts, t \in Timeouts, mode \in SessionModes,
          run \in RunOutcomes : RunClaudePrint(p, t, mode, run)

SpecLaunch == Init /\ [][LaunchNext]_vars

(***************************************************************************)
(* Field extraction alone: one turn whose process writes one JSON object,  *)
(* over objects with each field absent, present as expected, or present    *)
(* with another JSON type.                                                 *)
(***************************************************************************)
\* a dict with the one key k, or no key at all
Field(k, v) == (k :> v)
TypeFields == {EmptyDict} \cup {Field("type", PyStr(t)) : t \in {"system", "user", "result"}}
SubtypeFields == {EmptyDict, Field("subtype", PyStr("init"))}
SessionIdFields == {EmptyDict, Field("session_id", PyStr("s1"))}
MessageFields ==
    {EmptyDict} \cup
    {Field("message", m) :
        m \in {PyDict(EmptyDict),
               PyDict(Field("content", PyList(<<ToolResult(TRUE, "Permission denied")>>))),
               PyDict(Field("content", PyStr("text"))),
               PyNone}}
ResultFields == {EmptyDict, Field("result", PyStr("done"))}
DenialsFields ==
    {EmptyDict} \cup
    {Field("permission_denials", d) :
        d \in {PyList(<<>>), PyList(<<PyDict(EmptyDict)>>),
               PyList(<<Denial("Bash", "abc")>>), PyList(<<PyStr("Bash")>>)}}

\* the JSON objects a line of the stream may decode to
ParseObjects ==
    {t @@ s @@ i @@ m @@ r @@ d :
        t \in TypeFields, s \in SubtypeFields, i \in SessionIdFields,
        m \in MessageFields, r \in ResultFields, d \in DenialsFields}
ParseLines == {JsonLine(PyDict(o)) : o \in ParseObjects}

\* the process writes the one line of its turn
WriteOne(line) == consumed = <<>> /\ stdout = <<>> /\ ProcWrite(line)

ParseNext ==
    \/ \E mode \in StreamModes : Start("hello", mode, 1, TRUE)
    \/ \E line \in ParseLines : WriteOne(line)
    \/ ReadLine
    \/ Resume
    \/ ProcExit
    \/ WaitDone

SpecParse == Init /\ [][ParseNext]_vars

(***************************************************************************)
(* Turns over user lines with every kind of content entry, between lines   *)
(* of other types.                                                         *)
(***************************************************************************)
ContentItems ==
    { ToolResult(TRUE, "Permission denied"), ToolResult(TRUE, "no permission"),
      ToolResult(FALSE, "permission denied"), ToolResult(TRUE, "file not found"),
      PyDict([type |-> PyStr("text"), is_error |-> PyBool(TRUE),
              content |-> PyStr("permission")]),
      PyStr("permission") }
UserLines ==
    {UserLine(<<>>)} \cup {UserLine(<<item>>) : item \in ContentItems}
    \cup { UserLine(<<ToolResult(TRUE, "Permission denied"),
                      ToolResult(TRUE, "no permission")>>),
           UserLine(<<ToolResult(TRUE, "file not found"),
                      ToolResult(TRUE, "Permission denied")>>),
           JsonLine(PyDict([type |-> PyStr("user"),
                            message |-> PyDict([content |-> PyStr("permission")])])),
           JsonLine(PyDict([type |-> PyStr("user")])),
           JsonLine(PyDict([type |-> PyStr("user"), message |-> PyNone])) }
OtherLines ==
    { InitLine("s1"), ResultLine("done", <<>>),
      JsonLine(PyDict([type |-> PyStr("mystery"), subtype |-> PyStr("x")])),
      JsonLine(PyDict(EmptyDict)) }

LinesNext ==
    \/ Start("hello", "continue", 1, TRUE)
    \/ \E line \in UserLines \cup OtherLines : ProcWrite(line)
    \/ ReadLine
    \/ Resume
    \/ ReadEof
    \/ ProcExit
    \/ WaitDone

SpecLines == Init /\ [][LinesNext]_vars

(***************************************************************************)
(* ClaudeStreamSession.respond_to_permission, called by the consumer of a  *)
(* turn while the generator is suspended at a yield or after it finished.  *)
(***************************************************************************)
\* RespondToPermission writing the decision to the stdin of the process
RespondToPermission_WriteStdin(tool_use_id, allow, message) ==
    /\ turn = "stream" /\ pc \in {"yielded", "done"}
    /\ Len(warnings) < MaxResponses
    /\ warnings' = Append(warnings, tool_use_id)
    /\ stdin' = Append(stdin, [tool_use_id |-> tool_use_id, allow |-> allow,
                               message |-> message])
    /\ UNCHANGED <<clientVars, outside>>

\* respond_to_permission(tool_use_id, allow, message)
RespondToPermission(tool_use_id, allow, message) ==
    /\ turn = "stream" /\ pc \in {"yielded", "done"}
    /\ Len(warnings) < MaxResponses
    /\ warnings' = Append(warnings, tool_use_id)
    /\ UNCHANGED <<clientVars, stdin, outside>>

\* the lines of a turn that asks for permissions
RespondLines ==
    { InitLine("s1"),
      ResultLine("x", <<Denial("Bash", "abc"), Denial("Write", "def")>>) }
ToolUseIds == {"abc", "def"}
DenialMessages == {PyNone, PyStr("not allowed")}

RespondNext ==
    \/ \E mode \in StreamModes : Start("hello", mode, 1, TRUE)
    \/ ReadLine
    \/ ReadEof
    \/ Resume
    \/ WaitDone
    \/ \E line \in RespondLines : ProcWrite(line)
    \/ ProcExit
    \/ \E id \in ToolUseIds, allow \in BOOLEAN, message \in DenialMessages :
          RespondToPermission(id, allow, message)

SpecRespond == Init /\ [][RespondNext]_vars

(***************************************************************************)
(* strip_ansi applied to the texts over a small alphabet.                  *)
(***************************************************************************)
AnsiChars == {ESC, "[", "0", "m", "]", BEL, "P", "\\", "N", "=", "\n"}

\* the text grows by one character
TypeChar(c) ==
    /\ stripped = <<>> /\ Len(text) < MaxAnsiLen
    /\ text' = text \o c
    /\ UNCHANGED <<clientVars, ioVars, stripped, tmux, chunkVars, botVars>>

\* strip_ansi(text) returns
StripAnsi ==
    /\ stripped = <<>>
    /\ stripped' = <<strip_ansi(text)>>
    /\ UNCHANGED <<clientVars, ioVars, text, tmux, chunkVars, botVars>>

StripNext ==
    \/ \E c \in AnsiChars : TypeChar(c)
    \/ StripAnsi

SpecStrip == Init /\ [][StripNext]_vars

(***************************************************************************)
(* TmuxClient: send_input, capture_output and send_interrupt, each one     *)
(* run of the tmux executable.  A call ends by returning ret or by raising *)
(* raised; logged is the reason it wrote to the error log.                 *)
(***************************************************************************)
TmuxNotInstalled == "TmuxError: tmux is not installed"
TmuxFailedToExecute(e) == "TmuxError: Failed to execute tmux command: " \o e
FailedToCapture(msg) == "TmuxError: Failed to capture output: " \o msg

\* result.stderr.strip() or "unknown error"
ErrorMsg(run) == IF Strip(run.stderr) # "" THEN Strip(run.stderr) ELSE "unknown error"

\* the except clauses shared by the operations
TmuxExcept(run) ==
    CASE run.kind = "notfound" -> [ret |-> PyNone, raised |-> TmuxNotInstalled, logged |-> ""]
      [] run.kind = "suberror" ->
           [ret |-> PyNone, raised |-> TmuxFailedToExecute(run.msg), logged |-> ""]
      [] OTHER -> [ret |-> PyNone, raised |-> "OSError", logged |-> ""]

\* the ending of send_input and send_interrupt
SendEnding(run) ==
    IF run.kind = "exit"
    THEN IF run.returncode = 0
         THEN [ret |-> PyBool(TRUE), raised |-> "", logged |-> ""]
         ELSE [ret |-> PyBool(FALSE), raised |-> "", logged |-> ErrorMsg(run)]
    ELSE TmuxExcept(run)

\* the ending of capture_output
CaptureEnding(run) ==
    IF run.kind = "exit"
    THEN IF run.returncode = 0
         THEN [ret |-> PyStr(strip_ansi(RStrip(run.stdout))), raised |-> "", logged |-> ""]
         ELSE [ret |-> PyNone, raised |-> FailedToCapture(ErrorMsg(run)),
               logged |-> ErrorMsg(run)]
    ELSE TmuxExcept(run)

\* send_input(text)
SendInput(txt, run) ==
    /\ tmux' = [op |-> "send_input", text |-> txt, run |-> run] @@ SendEnding(run)
    /\ UNCHANGED <<clientVars, ioVars, textVars, chunkVars, botVars>>

\* capture_output()
CaptureOutput(run) ==
    /\ tmux' = [op |-> "capture_output", text |-> "", run |-> run] @@ CaptureEnding(run)
    /\ UNCHANGED <<clientVars, ioVars, textVars, chunkVars, botVars>>

\* send_interrupt()
SendInterrupt(run) ==
    /\ tmux' = [op |-> "send_interrupt", text |-> "", run |-> run] @@ SendEnding(run)
    /\ UNCHANGED <<clientVars, ioVars, textVars, chunkVars, botVars>>

\* what subprocess.run meets when it runs tmux
TmuxRuns ==
    [kind : {"exit"}, returncode : {0, 1},
     stdout : {"", "\n\n", "$ hello\nHi there\n$ \n\n", ESC \o "[32m$ " \o ESC \o "[0m\n"},
     stderr : {"", "can't find pane: 0\n", " \n"}]
    \cup {[kind |-> "notfound"], [kind |-> "suberror", msg |-> "boom"],
          [kind |-> "oserror"]}
PaneInputs == {"ls", "hello world"}

TmuxNext ==
    \/ \E txt \in PaneInputs, run \in TmuxRuns : SendInput(txt, run)
    \/ \E run \in TmuxRuns : CaptureOutput(run)
    \/ \E run \in TmuxRuns : SendInterrupt(run)

SpecTmux == Init /\ [][TmuxNext]_vars

(***************************************************************************)
(* chunk_message on the texts over a small alphabet, one action per        *)
(* iteration of its loop.                                                  *)
(***************************************************************************)
ChunkChars == {"a", "b", " ", "\n"}

\* the text grows by one character
TypeText(c) ==
    /\ chunking = "input" /\ Len(text) < MaxTextLen
    /\ text' = text \o c
    /\ UNCHANGED <<clientVars, ioVars, stripped, tmux, chunkVars, botVars>>

\* chunk_message(text, m) up to the head of its loop
ChunkCall(m) ==
    /\ chunking = "input"
    /\ max_size' = m
    /\ IF text = "" THEN chunks' = <<>> /\ chunking' = "returned" /\ UNCHANGED remaining
       ELSE IF Len(text) <= m
       THEN chunks' = <<text>> /\ chunking' = "returned" /\ UNCHANGED remaining
       ELSE chunks' = <<>> /\ remaining' = text /\ chunking' = "loop"
    /\ UNCHANGED <<clientVars, ioVars, textVars, tmux, botVars>>

\* the test of the while loop, and one iteration when it holds
ChunkIter ==
    /\ chunking = "loop"
    /\ IF remaining = "" THEN chunking' = "returned" /\ UNCHANGED <<remaining, chunks>>
       ELSE LET st == ChunkStep(remaining, max_size)
            IN  /\ chunks' = Append(chunks, st.chunk)
                /\ remaining' = st.rest
                /\ chunking' = IF st.brk THEN "returned" ELSE "loop"
    /\ UNCHANGED <<clientVars, ioVars, textVars, tmux, max_size, botVars>>

ChunkNext ==
    \/ \E c \in ChunkChars : TypeText(c)
    \/ \E m \in 1..MaxChunk : ChunkCall(m)
    \/ ChunkIter

SpecChunk == Init /\ [][ChunkNext]_vars

(***************************************************************************)
(* BackchannelBot: discord.py runs on_message as a task of its own for     *)
(* each message, so the tasks interleave at their awaits.                  *)
(***************************************************************************)
\* the task returns from on_message
Return(h) == [h EXCEPT !.pc = "done", !.end = "returned", !.chunks = <<>>]

\* send_response(channel, text) called as the last statement of its caller
BeginSend(h, txt, ctx) ==
    LET cs == chunk_message(txt, MAX_CHUNK_SIZE)
    IN  IF cs = <<>> THEN Return(h)
        ELSE [h EXCEPT !.pc = "sending", !.ctx = ctx, !.chunks = cs]

\* Ignored without the user restriction
Ignored_NoUserCheck(m) ==
    \/ m.bot
    \/ config.discord_channel_id # PyNone /\ PyStr(m.channel) # config.discord_channel_id

\* the conditions under which on_message ignores a message
Ignored(m) ==
    \/ m.bot
    \/ config.discord_channel_id # PyNone /\ PyStr(m.channel) # config.discord_channel_id
    \/ config.discord_allowed_user_id # PyNone
       /\ PyStr(m.author) # config.discord_allowed_user_id

\* on_message(m) up to its first await; sessions is what list_claude_sessions
\* finds
OnMessage(i, m, sessions) ==
    /\ handlers[i].pc = "none"
    /\ i > 1 => handlers[i - 1].pc # "none"
    /\ LET h == [handlers[i] EXCEPT !.msg = m]
       IN  IF Ignored(m)
           THEN handlers' = [handlers EXCEPT ![i] = Return(h)] /\ UNCHANGED config
           ELSE IF StartsWith(m.content, "!")
           THEN LET c == HandleCommand(m.content, config.claude_session_mode, sessions)
                    l == IF ListsSessions(m.content) THEN <<sessions>> ELSE <<>>
                IN  /\ config' = [config EXCEPT !.claude_session_mode = c.mode]
                    /\ handlers' = [handlers EXCEPT ![i] =
                           BeginSend([h EXCEPT !.listed = l], c.text, "command")]
           ELSE /\ handlers' = [handlers EXCEPT ![i] = [h EXCEPT !.pc = "typing"]]
                /\ UNCHANGED config
    /\ UNCHANGED <<clientVars, ioVars, textVars, tmux, chunkVars, sideVars>>

\* RunClaudeAsync leaving the session mode to the default of run_claude_print
RunClaudeAsync_DefaultMode(h) ==
    [h EXCEPT !.pc = "claude", !.proc = "running",
              !.calls = Append(@, [prompt |-> h.msg.content,
                                   session_mode |-> "continue"])]

\* _run_claude_async(prompt) up to its await: run_claude_print is handed to
\* the executor with the session mode of the configuration
RunClaudeAsync(h) ==
    [h EXCEPT !.pc = "claude", !.proc = "running",
              !.calls = Append(@, [prompt |-> h.msg.content,
                                   session_mode |-> config.claude_session_mode])]

\* TypingEnter giving up the turn when the typing indicator fails
TypingEnter_NoFallback(i, ok) ==
    /\ handlers[i].pc = "typing"
    /\ handlers' = [handlers EXCEPT ![i] =
                       IF ok THEN RunClaudeAsync([handlers[i] EXCEPT !.typed = TRUE])
                       ELSE Return(handlers[i])]
    /\ UNCHANGED <<clientVars, ioVars, textVars, tmux, chunkVars, config, sideVars>>

\* channel.typing() is entered, or raises a DiscordException; either way
\* _handle_passthrough goes on to run Claude
TypingEnter(i, ok) ==
    /\ handlers[i].pc = "typing"
    /\ handlers' = [handlers EXCEPT ![i] =
                       RunClaudeAsync([handlers[i] EXCEPT !.typed = ok])]
    /\ UNCHANGED <<clientVars, ioVars, textVars, tmux, chunkVars, config, sideVars>>

\* ClaudeDone without the except ClaudeError clause of _handle_passthrough
ClaudeDone_NoClaudeHandler(i, run) ==
    /\ handlers[i].pc = "claude"
    /\ LET r == PrintEnding(run, DEFAULT_TIMEOUT)
           h == [handlers[i] EXCEPT !.proc = "finished", !.ran = <<run>>]
       IN  handlers' = [handlers EXCEPT ![i] =
               IF r.outcome = "returned"
               THEN IF r.returned # "" THEN BeginSend(h, r.returned, "response")
                    ELSE Return(h)
               ELSE BeginSend(h, UnexpectedText, "unexpected")]
    /\ UNCHANGED <<clientVars, ioVars, textVars, tmux, chunkVars, config, sideVars>>

\* run_claude_print ends in the executor and _handle_passthrough resumes:
\* the response is sent when there is one; a ClaudeError is reported; any
\* other exception reaches the except clause of on_message
ClaudeDone(i, run) ==
    /\ handlers[i].pc = "claude"
    /\ LET r == PrintEnding(run, DEFAULT_TIMEOUT)
           h == [handlers[i] EXCEPT !.proc = "finished", !.ran = <<run>>]
       IN  handlers' = [handlers EXCEPT ![i] =
               IF r.outcome = "returned"
               THEN IF r.returned # "" THEN BeginSend(h, r.returned, "response")
                    ELSE Return(h)
               ELSE IF StartsWith(r.outcome, "ClaudeError: ")
               THEN BeginSend(h, ClaudeErrorText(ErrorText(r.outcome)), "claude_error")
               ELSE BeginSend(h, UnexpectedText, "unexpected")]
    /\ UNCHANGED <<clientVars, ioVars, textVars, tmux, chunkVars, config, sideVars>>

\* one channel.send(chunk) of send_response ends.  Forbidden is an
\* HTTPException, so every Discord exception is logged and the loop goes on;
\* another exception leaves send_response and reaches on_message, which
\* reports it once and gives up if the report fails too
Send(i, how) ==
    /\ handlers[i].pc = "sending"
    /\ LET h == [handlers[i] EXCEPT !.sent = Append(@, Head(handlers[i].chunks)),
                                    !.chunks = Tail(@)]
       IN  handlers' = [handlers EXCEPT ![i] =
               IF how \in {"ok", "HTTPException", "Forbidden", "DiscordException"}
               THEN IF h.chunks = <<>> THEN Return(h) ELSE h
               ELSE IF h.ctx = "unexpected" THEN Return(h)
               ELSE BeginSend(h, UnexpectedText, "unexpected")]
    /\ UNCHANGED <<clientVars, ioVars, textVars, tmux, chunkVars, config, sideVars>>

\* the task is cancelled at its await: CancelledError is no Exception and
\* leaves on_message; a Claude process in the executor keeps running
CancelHandler(i) ==
    /\ handlers[i].pc \in {"typing", "claude", "sending"}
    /\ handlers' = [handlers EXCEPT ![i] =
                       [@ EXCEPT !.pc = "done", !.end = "CancelledError",
                                 !.chunks = <<>>]]
    /\ UNCHANGED <<clientVars, ioVars, textVars, tmux, chunkVars, config, sideVars>>

\* the Claude process of a cancelled task ends
ProcFinish(i) ==
    /\ handlers[i].pc = "done" /\ handlers[i].proc = "running"
    /\ handlers' = [handlers EXCEPT ![i] = [@ EXCEPT !.proc = "finished"]]
    /\ UNCHANGED <<clientVars, ioVars, textVars, tmux, chunkVars, config, sideVars>>

UserMessage(content) ==
    [bot |-> FALSE, channel |-> "c1", author |-> "u1", content |-> content]
BotMessages ==
    { UserMessage("hello"), UserMessage("!session fresh"), UserMessage("!help"),
      [bot |-> TRUE, channel |-> "c1", author |-> "b1", content |-> "hello"],
      [bot |-> FALSE, channel |-> "c2", author |-> "u1", content |-> "hello"] }
SessionLists ==
    { <<>>,
      <<[id |-> "0a1b2c3d-1111-2222-3333-444455556666",
         timestamp |-> "2025-01-01 10:00", first_prompt |-> "fix the bug"]>> }
BotRuns ==
    { [kind |-> "exit", returncode |-> 0, stdout |-> "Hi\n", stderr |-> ""],
      [kind |-> "exit", returncode |-> 0, stdout |-> "\n", stderr |-> ""],
      [kind |-> "exit", returncode |-> 1, stdout |-> "", stderr |-> "error message\n"],
      [kind |-> "notfound"], [kind |-> "oserror"] }
SendOutcomes == {"ok", "HTTPException", "Forbidden", "DiscordException", "RuntimeError"}

BotNext ==
    \/ \E i \in 1..MaxMessages, m \in BotMessages, sessions \in SessionLists :
          OnMessage(i, m, sessions)
    \/ \E i \in 1..MaxMessages, ok \in BOOLEAN : TypingEnter(i, ok)
    \/ \E i \in 1..MaxMessages, run \in BotRuns : ClaudeDone(i, run)
    \/ \E i \in 1..MaxMessages, how \in SendOutcomes : Send(i, how)
    \/ \E i \in 1..MaxMessages : CancelHandler(i)
    \/ \E i \in 1..MaxMessages : ProcFinish(i)

SpecBot == Init /\ [][BotNext]_vars

(***************************************************************************)
(* The configuration.                                                      *)
(***************************************************************************)
\* _validate_discord_id accepts the value
ValidDiscordId(value) == value = PyNone \/ (value.tag = "str" /\ IsDigit(value.v))
\* _validate_session_mode accepts the value
ValidSessionMode(value) ==
    \/ value \in {"fresh", "continue"}
    \/ StartsWith(value, "resume:") /\ SliceFrom(value, 7) # ""

\* Config() is built from the environment and given to the bot, before any
\* message is received; an invalid value raises ConfigurationError instead
LoadConfig(channel, user, mode) ==
    /\ handlers[1].pc = "none"
    /\ ValidDiscordId(channel) /\ ValidDiscordId(user) /\ ValidSessionMode(mode)
    /\ config' = [claude_session_mode |-> mode, discord_channel_id |-> channel,
                  discord_allowed_user_id |-> user]
    /\ UNCHANGED <<clientVars, ioVars, textVars, tmux, chunkVars, handlers, sideVars>>

(***************************************************************************)
(* The !session command over its arguments, with passthrough turns         *)
(* between the commands.                                                   *)
(***************************************************************************)
Session1 ==
    [id |-> "0a1b2c3d-1111-2222-3333-444455556666",
     timestamp |-> "2025-01-02 10:00", first_prompt |-> "fix the bug"]
Session2 ==
    [id |-> "9f8e7d6c-aaaa-bbbb-cccc-ddddeeeeffff",
     timestamp |-> "2025-01-01 09:30", first_prompt |-> "(no prompt found)"]
\* what list_claude_sessions finds, most recent first
SessionDirs == {<<>>, <<Session1, Session2>>}

SessionArgs ==
    {"", " 1", " 2", " 0", " 3", " " \o Session2.id, " x-x-x-x-yyyyyyyyyyyyyyyyyyyyyyyyyyyy",
     " FRESH", " bogus"}
SessionMessages ==
    {UserMessage("!session" \o a) : a \in SessionArgs}
    \cup {UserMessage("!SESSION  2 "), UserMessage("hello")}
SessionRuns ==
    { [kind |-> "exit", returncode |-> 0, stdout |-> "Hi\n", stderr |-> ""],
      [kind |-> "timeout"] }

StartModes == {"resume:abc-123", "resume:", "FRESH"}

SessionNext ==
    \/ \E mode \in StartModes : LoadConfig(PyNone, PyNone, mode)
    \/ \E i \in 1..MaxMessages, m \in SessionMessages, sessions \in SessionDirs :
          OnMessage(i, m, sessions)
    \/ \E i \in 1..MaxMessages, ok \in BOOLEAN : TypingEnter(i, ok)
    \/ \E i \in 1..MaxMessages, run \in SessionRuns : ClaudeDone(i, run)
    \/ \E i \in 1..MaxMessages : Send(i, "ok")

SpecSession == Init /\ [][SessionNext]_vars

(***************************************************************************)
(* The filters of on_message over the configuration.  An id of a message   *)
(* is given as str() prints it; a configured id is any text of digits.     *)
(***************************************************************************)
ChannelIds == {PyNone, PyStr("7"), PyStr("007"), PyStr("")}
UserIds == {PyNone, PyStr("1"), PyStr("u1")}
ConfigModes == {"continue", "resume:abc-123", "resume:", "new"}
FilterMessages ==
    { [bot |-> FALSE, channel |-> "7", author |-> "1", content |-> "hello"],
      [bot |-> FALSE, channel |-> "7", author |-> "1", content |-> "!session fresh"],
      [bot |-> TRUE, channel |-> "7", author |-> "1", content |-> "!session fresh"],
      [bot |-> FALSE, channel |-> "7", author |-> "2", content |-> "hello"],
      [bot |-> FALSE, channel |-> "8", author |-> "1", content |-> "!session fresh"] }

FilterNext ==
    \/ \E channel \in ChannelIds, user \in UserIds, mode \in ConfigModes :
          LoadConfig(channel, user, mode)
    \/ \E i \in 1..MaxMessages, m \in FilterMessages : OnMessage(i, m, <<>>)
    \/ \E i \in 1..MaxMessages : TypingEnter(i, TRUE)
    \/ \E i \in 1..MaxMessages, run \in SessionRuns : ClaudeDone(i, run)
    \/ \E i \in 1..MaxMessages : Send(i, "ok")

SpecFilter == Init /\ [][FilterNext]_vars

(***************************************************************************)
(* The quiescence poller, awaitStableOutput.  The text of the              *)
(* specification is the only source: the repository has no code for it.    *)
(* The specification does not say what the first sample is compared with:  *)
(* a fresh PollState may hold no snapshot or snapshotBefore, and the model *)
(* takes either.  The Diff Engine is left out: the poller ends by handing  *)
(* it snapshotBefore and the final snapshot.                               *)
(***************************************************************************)
Max(a, b) == IF a >= b THEN a ELSE b
\* round(a / b), for a quotient that is not half-way between two integers
Round(a, b) == (2 * a + b) \div (2 * b)
PollsNeeded(pollInterval, stableDuration) == Max(1, Round(stableDuration, pollInterval))

pollFrame == <<clientVars, ioVars, textVars, tmux, chunkVars, config, handlers, perm>>

\* awaitStableOutput is called: a fresh PollState, then the first sleep
AwaitStableOutput(snapshotBefore, pollInterval, stableDuration, first) ==
    /\ poll.pc = "none"
    /\ poll' = [pc |-> "sleeping",
                snapshotBefore |-> snapshotBefore,
                polls_needed |-> PollsNeeded(pollInterval, stableDuration),
                first |-> first,            \* the PollState starts with no
                last_snapshot |-> first,    \* snapshot, <<>>, or with <<one>>
                stable_count |-> 0, cycle_count |-> 0,
                samples |-> <<>>,           \* what sampleFn returned, in order
                handed |-> <<>>]            \* what the Diff Engine is given
    /\ UNCHANGED pollFrame

\* PollCycle keeping the stability counter when the snapshot changes
PollCycle_NoReset(snapshot) ==
    /\ poll.pc = "sleeping" /\ poll.cycle_count < MaxCycles
    /\ LET p == [poll EXCEPT !.cycle_count = @ + 1, !.samples = Append(@, snapshot)]
       IN  poll' =
              IF poll.last_snapshot = <<snapshot>>
              THEN IF poll.stable_count + 1 = poll.polls_needed
                   THEN [p EXCEPT !.stable_count = @ + 1, !.pc = "done",
                                  !.handed = <<poll.snapshotBefore, snapshot>>]
                   ELSE [p EXCEPT !.stable_count = @ + 1]
              ELSE [p EXCEPT !.last_snapshot = <<snapshot>>]
    /\ UNCHANGED pollFrame

\* one cycle of the loop: the sleep ends and sampleFn returns snapshot
PollCycle(snapshot) ==
    /\ poll.pc = "sleeping" /\ poll.cycle_count < MaxCycles
    /\ LET p == [poll EXCEPT !.cycle_count = @ + 1, !.samples = Append(@, snapshot)]
       IN  poll' =
              IF poll.last_snapshot = <<snapshot>>
              THEN IF poll.stable_count + 1 = poll.polls_needed
                   THEN [p EXCEPT !.stable_count = @ + 1, !.pc = "done",
                                  !.handed = <<poll.snapshotBefore, snapshot>>]
                   ELSE [p EXCEPT !.stable_count = @ + 1]
              ELSE [p EXCEPT !.stable_count = 0, !.last_snapshot = <<snapshot>>]
    /\ UNCHANGED pollFrame

Snapshots == {"$ ", "$ hello", "$ hello\nHi there\n$ "}
Timings ==
    { [pollInterval |-> 500, stableDuration |-> 1500],
      [pollInterval |-> 500, stableDuration |-> 1000],
      [pollInterval |-> 1000, stableDuration |-> 1000],
      [pollInterval |-> 1000, stableDuration |-> 300] }

PollNext ==
    \/ \E before \in {"$ "}, t \in Timings, first \in {<<>>, <<"$ ">>} :
          AwaitStableOutput(before, t.pollInterval, t.stableDuration, first)
    \/ \E snapshot \in Snapshots : PollCycle(snapshot)

SpecPoll == Init /\ [][PollNext]_vars

(***************************************************************************)
(* _request_permission.  The calls on Discord (channel.send, add_reaction, *)
(* edit) end normally or with a DiscordException.  A message is named by   *)
(* the position of its chunk in the request text; 0 names a message that   *)
(* is not part of the request.  The timeout text starts with CLOCK, which  *)
(* stands for the alarm clock emoji.                                       *)
(***************************************************************************)
PERMISSION_ALLOW_EMOJI == CHECK
PERMISSION_DENY_EMOJI == CROSS
PERMISSION_TIMEOUT_SECONDS == 60
CLOCK == "[t]"
AllowedText == CHECK \o " **Allowed**"
DeniedText == CROSS \o " **Denied**"
TimedOutText == CLOCK \o " **Timed out** (auto-denied)"

PermReturn(p, v) == [p EXCEPT !.pc = "done", !.result = <<v>>, !.end = "returned"]
permFrame == <<clientVars, ioVars, textVars, tmux, chunkVars, config, handlers, poll>>

\* _request_permission(channel, perm_req, author_id) up to the first
\* channel.send of send_response; cs are the chunks of the formatted text
RequestPermission(author, cs) ==
    /\ perm.pc = "none"
    /\ perm' = [perm EXCEPT !.pc = "sending", !.author_id = author, !.chunks = cs]
    /\ UNCHANGED permFrame

\* one channel.send of send_response ends; after the last one the call
\* returns False if no message was sent, and goes on to the reactions
\* with the last message sent otherwise
PermSend(ok) ==
    /\ perm.pc = "sending"
    /\ LET p == [perm EXCEPT !.chunks = Tail(@),
                             !.messages = IF ok THEN Append(@, Head(perm.chunks))
                                          ELSE @]
       IN  perm' = IF p.chunks # <<>> THEN p
                   ELSE IF p.messages = <<>> THEN PermReturn(p, FALSE)
                   ELSE [p EXCEPT !.pc = "adding"]
    /\ UNCHANGED permFrame

\* one add_reaction ends: the allow button, then the deny button, then
\* wait_for is called; a DiscordException ends the call with False
AddReaction(ok) ==
    /\ perm.pc = "adding"
    /\ LET emoji == IF perm.added = <<>> THEN PERMISSION_ALLOW_EMOJI
                    ELSE PERMISSION_DENY_EMOJI
           p == [perm EXCEPT !.added = Append(@, emoji)]
       IN  perm' = IF ~ok THEN PermReturn(perm, FALSE)
                   ELSE IF Len(p.added) = 2 THEN [p EXCEPT !.pc = "waiting"]
                   ELSE p
    /\ UNCHANGED permFrame

\* check of _request_permission accepting the reaction of any user
Check_AnyUser(p, reaction) ==
    /\ reaction.message = Last(p.messages)
    /\ reaction.emoji \in {PERMISSION_ALLOW_EMOJI, PERMISSION_DENY_EMOJI}

\* the check given to wait_for
Check(p, reaction) ==
    /\ reaction.user = p.author_id
    /\ reaction.message = Last(p.messages)
    /\ reaction.emoji \in {PERMISSION_ALLOW_EMOJI, PERMISSION_DENY_EMOJI}

\* a reaction_add event is dispatched: wait_for returns the first one that
\* passes the check; before wait_for is called nobody listens
ReactionAdd(reaction) ==
    /\ perm.pc \in {"adding", "waiting"}
    /\ perm' = IF perm.pc = "waiting" /\ Check(perm, reaction)
               THEN [perm EXCEPT !.pc = "editing", !.matched = <<reaction>>]
               ELSE perm
    /\ UNCHANGED permFrame

\* a second passes while wait_for waits
PermTick ==
    /\ perm.pc = "waiting" /\ perm.clock < PERMISSION_TIMEOUT_SECONDS
    /\ perm' = [perm EXCEPT !.clock = @ + 1]
    /\ UNCHANGED permFrame

\* the timeout of wait_for: asyncio.TimeoutError
WaitTimeout ==
    /\ perm.pc = "waiting" /\ perm.clock = PERMISSION_TIMEOUT_SECONDS
    /\ perm' = [perm EXCEPT !.pc = "editing", !.expired = TRUE]
    /\ UNCHANGED permFrame

\* perm_message.edit ends, a DiscordException being suppressed, and the
\* call returns
PermEdit(ok) ==
    /\ perm.pc = "editing"
    /\ LET allowed == ~perm.expired /\ perm.matched[1].emoji = PERMISSION_ALLOW_EMOJI
           result_text == IF perm.expired THEN TimedOutText
                          ELSE IF allowed THEN AllowedText ELSE DeniedText
       IN  perm' = PermReturn([perm EXCEPT !.edits =
                                  Append(@, [message |-> Last(perm.messages),
                                             text |-> result_text, done |-> ok])],
                              allowed)
    /\ UNCHANGED permFrame

RequestChunks == {<<1>>, <<1, 2>>}
Users == {"u1", "u2"}
Reactions ==
    [user : Users, message : {0, 1, 2},
     emoji : {PERMISSION_ALLOW_EMOJI, PERMISSION_DENY_EMOJI, "?"}]

PermissionNext ==
    \/ \E cs \in RequestChunks : RequestPermission("u1", cs)
    \/ \E ok \in BOOLEAN : PermSend(ok)
    \/ \E ok \in BOOLEAN : AddReaction(ok)
    \/ \E reaction \in Reactions : ReactionAdd(reaction)
    \/ PermTick
    \/ WaitTimeout
    \/ \E ok \in BOOLEAN : PermEdit(ok)

SpecPermission == Init /\ [][PermissionNext]_vars

(***************************************************************************)
(* Properties.                                                             *)
(***************************************************************************)
TerminalYielded == events # <<>> /\ Last(events).is_complete
IsDictLine(line) == line.utf8 /\ line.json /\ line.val.tag = "dict"
IsResultLine(line) ==
    IsDictLine(line) /\ EqStr(DictGet(line.val, "type", PyStr("")), "result")
IsInitLine(line) ==
    /\ IsDictLine(line)
    /\ EqStr(DictGet(line.val, "type", PyStr("")), "system")
    /\ EqStr(DictGet(line.val, "subtype", PyNone), "init")

\* C1: in one turn of start at most one message has is_complete = true, it is
\* the terminal result message and the last message yielded, and once it has
\* been yielded no further line is read and no further message is produced,
\* whatever the process writes afterwards.
C1_SingleTerminalEvent ==
    /\ [](\A i \in DOMAIN events :
             events[i].is_complete =>
                 i = Len(events) /\ EqStr(events[i].type, "result"))
    /\ [][TerminalYielded => (events' = events /\ consumed' = consumed)]_vars

\* the terminal message was yielded, the turn is over, and a line the process
\* wrote afterwards is still unread in the pipe
C1_Witness == TerminalYielded /\ pc = "done" /\ stdout # <<>>

\* the permission_request messages among q, in order
RECURSIVE PermissionRequests(_)
PermissionRequests(q) ==
    IF q = <<>> THEN <<>>
    ELSE (IF EqStr(Head(q).type, "permission_request") THEN <<Head(q)>> ELSE <<>>)
         \o PermissionRequests(Tail(q))

\* C2: a result line yields one permission_request message per entry of
\* permission_denials, in list order, each with that entry's tool_name,
\* tool_use_id and tool_input, and only then the one terminal message with the
\* result text; with an empty or absent list it yields the terminal message
\* alone. No other line yields a permission_request.
C2_ResultLineEvents ==
    LET isres == consumed # <<>> /\ IsResultLine(Last(consumed))
        data == Last(consumed).val
        denials == IF isres /\ "permission_denials" \in DOMAIN data.v
                   THEN data.v.permission_denials.v ELSE <<>>
        reqs == PermissionRequests(events)
        n == Len(denials)
    IN  /\ Len(reqs) <= n
        /\ \A i \in 1..Len(reqs) :
              /\ reqs[i].permission_request.tool_name = denials[i].v.tool_name
              /\ reqs[i].permission_request.tool_use_id = denials[i].v.tool_use_id
              /\ reqs[i].permission_request.tool_input = denials[i].v.tool_input
              /\ ~reqs[i].is_complete
        /\ TerminalYielded =>
              /\ isres /\ Len(reqs) = n /\ Len(events) > n
              /\ \A i \in 1..n : events[Len(events) - 1 - n + i] = reqs[i]
              /\ EqStr(Last(events).type, "result")
              /\ Last(events).result = data.v.result
              /\ Cardinality({i \in DOMAIN events : EqStr(events[i].type, "result")}) = 1

\* a result line with two denials has yielded both requests and the terminal message
C2_Witness ==
    /\ TerminalYielded
    /\ Len(PermissionRequests(events)) = 2
    /\ PermissionRequests(events)[1].permission_request.tool_name = PyStr("Bash")
    /\ PermissionRequests(events)[2].permission_request.tool_name = PyStr("Write")

\* a line that is not a JSON object: not UTF-8, not JSON, or a JSON scalar
NotStructured(line) == ~IsDictLine(line)
ParserErrors == {"UnicodeDecodeError", "JSONDecodeError", "AttributeError", "TypeError"}

\* C3: a line that is not valid structured data produces no message and
\* raises no error to the caller of start: while only such lines have been
\* read, nothing was yielded and no parser exception ended the turn.
C3_MalformedLineSkipped ==
    (\A i \in DOMAIN consumed : NotStructured(consumed[i]))
        => (events = <<>> /\ outcome \notin ParserErrors)

\* C4: the message sequence of start never ends normally without a terminal
\* result message.
C4_NoSilentEnd ==
    (turn = "stream" /\ pc = "done" /\ outcome = "returned") => TerminalYielded

\* C5: a streaming turn is bounded by the caller's timeout: start is never
\* still blocked in a read once more than timeout seconds have passed.
C5_TurnBoundedByTimeout ==
    (turn = "stream" /\ pc = "reading") => elapsed <= timeout

C7_SessionIdLatches ==
    LET inits == {i \in DOMAIN consumed : IsInitLine(consumed[i])}
        first == CHOOSE i \in inits : \A j \in inits : i <= j
    IN  inits # {} => session_id = consumed[first].val.v.session_id

SessionIds == {"abc-123", ""}

\* C9: the command line carries the session-continuation variant of
\* session_mode, the same in start and run_claude_print: 'fresh' adds nothing,
\* 'continue' adds --continue alone, 'resume:<id>' adds --resume <id> alone;
\* the prompt follows -p.
C9_SessionFlags ==
    turn # "none" =>
        LET fixed == IF turn = "print"
                     THEN <<"--dangerously-skip-permissions">>
                     ELSE <<"--input-format", "stream-json", "--output-format",
                            "stream-json", "--verbose",
                            "--dangerously-skip-permissions">>
            flags == SubSeq(cmd, 4 + Len(fixed), Len(cmd))
        IN  /\ SubSeq(cmd, 1, 3) = <<"claude", "-p", prompt>>
            /\ SubSeq(cmd, 4, 3 + Len(fixed)) = fixed
            /\ session_mode = "fresh" => flags = <<>>
            /\ session_mode = "continue" => flags = <<"--continue">>
            /\ \A id \in SessionIds :
                  session_mode = "resume:" \o id => flags = <<"--resume", id>>

\* a streaming turn was launched to resume a session
C9_Witness ==
    turn = "stream" /\ session_mode = "resume:abc-123" /\ sub.kind = "spawned"

\* s with its leading and trailing whitespace characters removed is t
IsStripOf(t, s, leading) ==
    \E i \in 0..Len(s), j \in 0..Len(s) :
        /\ i + j <= Len(s)
        /\ (~leading => i = 0)
        /\ \A k \in 1..i : IsSpace(SubSeq(s, k, k))
        /\ \A k \in (Len(s) - j + 1)..Len(s) : IsSpace(SubSeq(s, k, k))
        /\ t = (IF i + j = Len(s) THEN "" ELSE SubSeq(s, i + 1, Len(s) - j))
        /\ (t # "" => /\ ~IsSpace(SubSeq(t, Len(t), Len(t)))
                      /\ (leading => ~IsSpace(SubSeq(t, 1, 1))))

\* C10: run_claude_print returns text only on exit code 0, and then the stdout
\* body without its trailing whitespace; a non-zero exit raises ClaudeError
\* 'Claude command failed' with the stderr diagnostic, or 'command failed'
\* when stderr is empty; expiry of the timeout raises the timeout ClaudeError;
\* a failed or timed-out run returns no text.
C10_PrintContract ==
    turn = "print" =>
        /\ returned # <<>> =>
              /\ sub.kind = "exit" /\ sub.returncode = 0 /\ outcome = "returned"
              /\ Len(returned) = 1 /\ IsStripOf(returned[1], sub.stdout, FALSE)
        /\ (sub.kind = "exit" /\ sub.returncode = 0) => returned # <<>>
        /\ (sub.kind = "exit" /\ sub.returncode # 0) =>
              /\ returned = <<>>
              /\ \E diag \in {"command failed", "error message"} :
                    /\ outcome = "ClaudeError: Claude command failed: " \o diag
                    /\ IF diag = "command failed"
                       THEN IsStripOf("", sub.stderr, TRUE)
                       ELSE IsStripOf(diag, sub.stderr, TRUE)
              /\ sub.stderr = "" =>
                    outcome = "ClaudeError: Claude command failed: command failed"
        /\ sub.kind = "timeout" =>
              /\ returned = <<>>
              /\ outcome = "ClaudeError: Claude command timed out after "
                              \o ToString(timeout) \o " seconds"

\* a run that exited non-zero with a diagnostic on stderr has raised
C10_Witness ==
    /\ turn = "print" /\ sub.kind = "exit" /\ sub.returncode = 1
    /\ sub.stderr = "error message\n"
    /\ outcome = "ClaudeError: Claude command failed: error message"

\* C11: field extraction in _read_stream never raises on a decoded JSON
\* object: whatever fields the object lacks or carries, no parser exception
\* ends the turn that read it.
C11_FieldExtractionNeverRaises ==
    (\A i \in DOMAIN consumed : IsDictLine(consumed[i]))
        => outcome \notin ParserErrors


C14_StripIdempotent ==
    stripped # <<>> => strip_ansi(stripped[1]) = stripped[1]

RECURSIVE IsSubsequence(_, _)
\* t is s with some characters left out
IsSubsequence(t, s) ==
    IF t = "" THEN TRUE
    ELSE IF s = "" THEN FALSE
    ELSE IF Ch(t, 1) = Ch(s, 1) THEN IsSubsequence(SliceFrom(t, 1), SliceFrom(s, 1))
    ELSE IsSubsequence(t, SliceFrom(s, 1))

\* the characters that open a sequence after ESC
Introducers == {"[", "]", "P", "X", "^", "_", "N", "O", "=", ">"}

C16_PaneFailureSurfaced ==
    /\ (/\ tmux.op \in {"capture_output", "send_input"}
        /\ tmux.run.kind = "exit" /\ tmux.run.returncode # 0)
          => /\ StartsWith(tmux.raised, "TmuxError: ")
             /\ \E reason \in {"can't find pane: 0", "unknown error"} :
                   Contains(tmux.raised, reason)
    /\ (tmux.op = "capture_output" /\ tmux.ret = PyStr(""))
          => (tmux.run.kind = "exit" /\ tmux.run.returncode = 0)


\* C17: every chunk of chunk_message(text, max_size), max_size >= 1, is at
\* most max_size characters long.
C17_ChunkWithinLimit ==
    \A i \in DOMAIN chunks : Len(chunks[i]) <= max_size

\* a text was split into several chunks, one of them as long as the limit
C17_Witness ==
    /\ chunking = "returned" /\ Len(chunks) >= 2
    /\ \E i \in DOMAIN chunks : Len(chunks[i]) = max_size

RECURSIVE NonSpace(_)
\* the characters of s that are not whitespace, in order
NonSpace(s) ==
    IF s = "" THEN ""
    ELSE (IF IsSpace(Ch(s, 1)) THEN "" ELSE Ch(s, 1)) \o NonSpace(SliceFrom(s, 1))

RECURSIVE Concat(_)
\* the strings of q joined
Concat(q) == IF q = <<>> THEN "" ELSE Head(q) \o Concat(Tail(q))

RECURSIVE Joins(_, _)
\* s is the strings of q in order, with only whitespace after each of them
Joins(s, q) ==
    IF q = <<>> THEN NonSpace(s) = ""
    ELSE /\ StartsWith(s, Head(q))
         /\ \E k \in Len(Head(q))..Len(s) :
               /\ NonSpace(SubSeq(s, Len(Head(q)) + 1, k)) = ""
               /\ Joins(SliceFrom(s, k), Tail(q))

\* C18: chunk_message loses nothing but whitespace at the split points: the
\* text is its chunks in order with only whitespace between and after them,
\* so the chunks joined hold every non-whitespace character once and in
\* order; a non-empty text no longer than max_size is returned as the one
\* chunk, unchanged; the empty text gives the empty list.
C18_ChunksKeepContent ==
    chunking = "returned" =>
        /\ Joins(text, chunks)
        /\ NonSpace(Concat(chunks)) = NonSpace(text)
        /\ (text # "" /\ Len(text) <= max_size) => chunks = <<text>>
        /\ text = "" => chunks = <<>>

\* a text with whitespace inside was split at it into two chunks
C18_Witness ==
    /\ chunking = "returned" /\ text = "ab ba" /\ max_size = 3
    /\ chunks = <<"ab", "ba">>


\* C13: at most one Claude turn is in flight at a time: while the Claude
\* process started for one passthrough message is running, no second Claude
\* process is started for another message.
C13_OneTurnInFlight ==
    Cardinality({i \in DOMAIN handlers : handlers[i].proc = "running"}) <= 1


\* the message of h is one that on_message hands to _handle_passthrough
IsPassthrough(h) ==
    h.pc # "none" /\ ~Ignored(h.msg) /\ ~StartsWith(h.msg.content, "!")

RaisedClaudeError(h) ==
    /\ h.ran # <<>>
    /\ \/ h.ran[1].kind \in {"notfound", "timeout", "suberror"}
       \/ h.ran[1].kind = "exit" /\ h.ran[1].returncode # 0

\* the cause in the ClaudeError of the runs of the bot
Cause(run) ==
    IF run.kind = "notfound" THEN "Claude Code is not installed"
    ELSE "Claude command failed: error message"

\* the report of a ClaudeError is the first text h passed to the channel
ErrorReported(h) ==
    /\ h.sent # <<>>
    /\ Contains(h.sent[1], "Claude error")
    /\ Contains(h.sent[1], Cause(h.ran[1]))

CommandArg(content) == Strip(SliceFrom(LStrip(content), Len("!session")))
IsSessionCommand(content) == Lower(SliceTo(LStrip(content), Len("!session"))) = "!session"
\* the task has just received its message
Receives(i) == handlers[i].pc = "none" /\ handlers'[i].pc # "none"
\* the task handles '!session <n>' with n one of the sessions it listed
SelectsListed(h) ==
    /\ h.listed # <<>> /\ IsDigit(CommandArg(h.msg.content))
    /\ 1 <= ToInt(CommandArg(h.msg.content))
    /\ ToInt(CommandArg(h.msg.content)) <= Len(h.listed[1])
\* the step is taken before any message arrives: the configuration is loaded
AtStartup == handlers[1].pc = "none" /\ UNCHANGED handlers
\* the task launches a passthrough turn in this step
Launches(i) == Len(handlers'[i].calls) > Len(handlers[i].calls)

\* C21: '!session <n>' with n between 1 and the number of listed sessions
\* sets the session mode to 'resume:<id>' with the full id of the n-th most
\* recent session and confirms with a check-mark message; every passthrough
\* turn is launched with the session mode current at its launch, and the
\* session mode, once loaded at startup, changes only when a !session command
\* with an argument is received
C21_NumberSelectsSession ==
    [][/\ \A i \in 1..MaxMessages :
            Receives(i) /\ SelectsListed(handlers'[i]) =>
               LET h == handlers'[i]
                   id == h.listed[1][ToInt(CommandArg(h.msg.content))].id
               IN  /\ config'.claude_session_mode = "resume:" \o id
                   /\ Len(id) = 36
                   /\ Len(h.chunks) = 1 /\ StartsWith(h.chunks[1], CHECK)
       /\ \A i \in 1..MaxMessages :
            Launches(i) =>
               /\ Last(handlers'[i].calls).session_mode = config.claude_session_mode
               /\ UNCHANGED config
       /\ (config' # config /\ ~AtStartup) =>
            \E i \in 1..MaxMessages :
               /\ Receives(i) /\ IsSessionCommand(handlers'[i].msg.content)
               /\ CommandArg(handlers'[i].msg.content) # ""]_vars
\* the second session was selected by number and a later message was passed
\* to Claude with it
C21_Witness ==
    /\ handlers[1].msg.content = "!session 2" /\ SelectsListed(handlers[1])
    /\ handlers[1].sent # <<>> /\ StartsWith(handlers[1].sent[1], CHECK)
    /\ handlers[2].calls = <<[prompt |-> "hello",
                              session_mode |-> "resume:" \o Session2.id]>>


\* the task handles a !session command in this step
HandlesSession(i) ==
    /\ Receives(i) /\ handlers'[i].ctx = "command"
    /\ IsSessionCommand(handlers'[i].msg.content)
\* '!session <n>' with n outside the sessions listed
OutOfRange(h) ==
    /\ IsDigit(CommandArg(h.msg.content)) /\ h.listed # <<>>
    /\ ~(1 <= ToInt(CommandArg(h.msg.content))
         /\ ToInt(CommandArg(h.msg.content)) <= Len(h.listed[1]))
LooksLikeId(arg) == Len(arg) = 36 /\ Count(arg, "-") = 4
\* an argument that is no number, no id and, as written or in lower case,
\* no mode keyword
Unrecognised(arg, keyword) ==
    /\ arg # "" /\ ~IsDigit(arg) /\ ~LooksLikeId(arg)
    /\ keyword \notin {"continue", "fresh"}
\* the reply of the task is one message marked with a cross
RepliesCross(h) == Len(h.chunks) = 1 /\ StartsWith(h.chunks[1], CROSS)

\* C22: '!session' with no argument, '!session <n>' with n out of range and
\* '!session <arg>' with an argument that is neither a number, a
\* 36-character id with four dashes, 'continue' nor 'fresh' reply and leave
\* config.claude_session_mode as it was; the invalid ones reply with a
\* cross-marked message
C22_RejectedKeepsMode ==
    [][\A i \in 1..MaxMessages :
          HandlesSession(i) =>
             LET h == handlers'[i]
                 arg == CommandArg(h.msg.content)
             IN  /\ arg = "" => UNCHANGED config /\ Len(h.chunks) = 1
                 /\ OutOfRange(h) => UNCHANGED config /\ RepliesCross(h)
                 /\ Unrecognised(arg, arg) => UNCHANGED config /\ RepliesCross(h)]_vars
\* C22, amended: the same, with 'continue' and 'fresh' recognised in any
\* letter case
C22_RejectedKeepsModeAnyCase ==
    [][\A i \in 1..MaxMessages :
          HandlesSession(i) =>
             LET h == handlers'[i]
                 arg == CommandArg(h.msg.content)
             IN  /\ arg = "" => UNCHANGED config /\ Len(h.chunks) = 1
                 /\ OutOfRange(h) => UNCHANGED config /\ RepliesCross(h)
                 /\ Unrecognised(arg, Lower(arg)) =>
                       UNCHANGED config /\ RepliesCross(h)]_vars
\* after the mode was switched to fresh, a number out of range was rejected
\* and the mode is still fresh
C22_Witness ==
    /\ handlers[1].msg.content = "!session FRESH"
    /\ handlers[2].msg.content = "!session 3" /\ OutOfRange(handlers[2])
    /\ handlers[2].sent # <<>> /\ StartsWith(handlers[2].sent[1], CROSS)
    /\ config.claude_session_mode = "fresh"


SameId(id, configured) ==
    configured.tag = "str" /\ IsDigit(configured.v) /\ ToInt(id) = ToInt(configured.v)
\* the messages the configuration lets the bot act on
MayActOn(m) ==
    /\ ~m.bot
    /\ config.discord_channel_id # PyNone => SameId(m.channel, config.discord_channel_id)
    /\ config.discord_allowed_user_id # PyNone
          => SameId(m.author, config.discord_allowed_user_id)
\* the task started a Claude process or a reply
Acted(h) ==
    \/ h.calls # <<>> \/ h.proc # "none"
    \/ h.sent # <<>> \/ h.chunks # <<>>
    \/ h.pc \in {"typing", "claude", "sending"}

\* C24: on_message acts on a message only if its author is not a bot, its
\* channel is the configured channel when one is configured and its author
\* is the configured user when one is configured; for every other message
\* no Claude process is started, no reply is sent and the session mode is
\* unchanged
C24_OnlyAllowedMessages ==
    /\ [](\A i \in 1..MaxMessages :
            handlers[i].pc # "none" /\ Acted(handlers[i]) => MayActOn(handlers[i].msg))
    /\ [][\A i \in 1..MaxMessages :
            Receives(i) /\ ~MayActOn(handlers'[i].msg) =>
               /\ UNCHANGED config
               /\ handlers'[i].pc = "done" /\ handlers'[i].end = "returned"]_vars
\* with a channel and a user configured, a command of another user was
\* ignored and a message of the configured user was passed to Claude
C24_Witness ==
    /\ config.discord_channel_id = PyStr("7")
    /\ config.discord_allowed_user_id = PyStr("1")
    /\ handlers[1].msg = [bot |-> FALSE, channel |-> "8", author |-> "1",
                          content |-> "!session fresh"]
    /\ handlers[1].pc = "done" /\ ~Acted(handlers[1])
    /\ config.claude_session_mode = "continue"
    /\ handlers[2].msg.author = "1" /\ handlers[2].calls # <<>>


(***************************************************************************)
(* The quiescence poller.                                                  *)
(***************************************************************************)
\* sampleFn returned the same snapshot at every call so far
ConstantSamples == \A k \in DOMAIN poll.samples : poll.samples[k] = poll.samples[1]
\* the last n samples are equal
StableTail(n) ==
    /\ Len(poll.samples) >= n
    /\ \A k \in (Len(poll.samples) - n + 1)..Len(poll.samples) :
          poll.samples[k] = Last(poll.samples)
\* the poller samples in this step and the snapshot is not the baseline
SnapshotChanges ==
    /\ poll.pc = "sleeping" /\ poll'.cycle_count = poll.cycle_count + 1
    /\ <<Last(poll'.samples)>> # poll.last_snapshot
\* the stability counter is reset at each change of the snapshot, and the
\* poller ends only after polls_needed equal samples in a row
CounterFollowsChanges ==
    /\ [](poll.pc = "done" => StableTail(poll.polls_needed))
    /\ [][SnapshotChanges => poll'.stable_count = 0 /\ poll'.pc = "sleeping"]_vars

ReadsLine == Len(consumed') = Len(consumed) + 1
\* the messages the line read in this step yields: the one yielded in the
\* step and those it has still to yield
LineEvents == SubSeq(events', Len(events) + 1, Len(events')) \o pending'
IsDenied(msg) == msg.type = PyStr("permission_denied")
HasType(line, t) ==
    IsDictLine(line) /\ "type" \in DOMAIN line.val.v /\ line.val.v.type = PyStr(t)
\* the text has 'permission' in it, in any letter case
MentionsPermission(txt) ==
    \E k \in 1..(Len(txt) - 9) : Lower(SubSeq(txt, k, k + 9)) = "permission"
\* the entries of the content list of a user line that report a denied
\* permission; none when the line has no content list
DenialEntries(line) ==
    LET d == line.val.v
        items == IF "message" \in DOMAIN d /\ d.message.tag = "dict"
                    /\ "content" \in DOMAIN d.message.v
                    /\ d.message.v.content.tag = "list"
                 THEN d.message.v.content.v ELSE <<>>
    IN  {k \in DOMAIN items :
            /\ items[k].tag = "dict"
            /\ {"type", "is_error", "content"} \subseteq DOMAIN items[k].v
            /\ items[k].v.type = PyStr("tool_result")
            /\ items[k].v.is_error = PyBool(TRUE)
            /\ items[k].v.content.tag = "str"
            /\ MentionsPermission(items[k].v.content.v)}

\* C26: a line of type 'user' yields a permission_denied message carrying
\* the raw object exactly when its content list has an entry of type
\* 'tool_result' with a true error flag and a content text with
\* 'permission' in it in any letter case; a user line with no such entry or
\* no content list yields none; no permission_denied message is yielded
\* after the terminal message of the turn
C26_DeniedFromUserLines ==
    /\ [][ReadsLine /\ HasType(Last(consumed'), "user") =>
            LET line == Last(consumed')
                denied == {k \in DOMAIN LineEvents : IsDenied(LineEvents[k])}
            IN  /\ denied # {} <=> DenialEntries(line) # {}
                /\ \A k \in denied : LineEvents[k].data = line.val]_vars
    /\ [](\A k \in DOMAIN events :
            IsDenied(events[k]) => \A j \in 1..k : ~events[j].is_complete)
\* a user line with a denial and an entry of another kind yielded its
\* permission_denied message, and the turn ended with the terminal message
C26_Witness ==
    /\ Len(consumed) = 2 /\ TerminalYielded
    /\ consumed[1] = UserLine(<<ToolResult(TRUE, "file not found"),
                                ToolResult(TRUE, "Permission denied")>>)
    /\ IsDenied(events[1]) /\ events[1].data = consumed[1].val
    /\ Len(events) = 3


\* the generic message of a decoded object: its type and subtype, or the
\* defaults '' and None, and the raw payload
GenericEvent(line) ==
    LET d == line.val.v
    IN  [type |-> IF "type" \in DOMAIN d THEN d.type ELSE PyStr(""),
         subtype |-> IF "subtype" \in DOMAIN d THEN d.subtype ELSE PyNone,
         data |-> line.val, permission_request |-> PyNone, result |-> PyNone,
         is_complete |-> FALSE]
\* the messages change only by a line being read or by the next message of
\* the current line being yielded
YieldsInOrder ==
    [][events' # events \/ pending' # pending =>
          \/ ReadsLine /\ events = SubSeq(events', 1, Len(events))
          \/ /\ pending # <<>> /\ pending' = Tail(pending)
             /\ events' = Append(events, Head(pending))]_vars

\* C27: every decoded object whose type is not 'result' yields exactly one
\* generic message with its type, subtype and raw payload, after the
\* permission_denied messages of the same line; the messages of a turn are
\* yielded in the order of their lines, none dropped, duplicated or
\* reordered
C27_OneGenericEventPerObject ==
    /\ [][ReadsLine /\ IsDictLine(Last(consumed'))
            /\ ~HasType(Last(consumed'), "result") =>
            /\ LineEvents # <<>>
            /\ Last(LineEvents) = GenericEvent(Last(consumed'))
            /\ \A k \in 1..(Len(LineEvents) - 1) : IsDenied(LineEvents[k])]_vars
    /\ YieldsInOrder
\* C27 for the objects whose message field, when present, is an object
C27_WellTypedObjects ==
    /\ [][ReadsLine /\ IsDictLine(Last(consumed'))
            /\ ~HasType(Last(consumed'), "result")
            /\ Last(consumed') # JsonLine(PyDict([type |-> PyStr("user"),
                                                  message |-> PyNone])) =>
            /\ LineEvents # <<>>
            /\ Last(LineEvents) = GenericEvent(Last(consumed'))
            /\ \A k \in 1..(Len(LineEvents) - 1) : IsDenied(LineEvents[k])]_vars
    /\ YieldsInOrder


(***************************************************************************)
(* The session mode.                                                       *)
(***************************************************************************)
\* the three flag sets of the command builder
DefinedFlags(mode, flags) ==
    \/ mode = "fresh" /\ flags = <<>>
    \/ mode = "continue" /\ flags = <<"--continue">>
    \/ /\ Len(mode) > Len("resume:") /\ SubSeq(mode, 1, Len("resume:")) = "resume:"
       /\ flags = <<"--resume", SubSeq(mode, Len("resume:") + 1, Len(mode))>>

\* C28: from a validated configuration, after any !session commands,
\* config.claude_session_mode is 'fresh', 'continue' or 'resume:<id>' with
\* a non-empty id: a value _validate_session_mode accepts and for which
\* run_claude_print builds one of its three flag sets
C28_SessionModeValid ==
    LET mode == config.claude_session_mode
        built == PrintCmd("hello", mode)
    IN  /\ ValidSessionMode(mode)
        /\ SubSeq(built, 1, 4) = <<"claude", "-p", "hello", "--dangerously-skip-permissions">>
        /\ DefinedFlags(mode, SubSeq(built, 5, Len(built)))
\* from mode 'resume:abc-123' an unknown argument was rejected, and an
\* argument shaped like an id was then taken as the session to resume
C28_Witness ==
    /\ handlers[1].msg.content = "!session bogus" /\ handlers[1].sent # <<>>
    /\ handlers[2].msg.content = "!session x-x-x-x-yyyyyyyyyyyyyyyyyyyyyyyyyyyy" /\ handlers[2].pc = "done"
    /\ config.claude_session_mode = "resume:x-x-x-x-yyyyyyyyyyyyyyyyyyyyyyyyyyyy"


(***************************************************************************)
(* chunk_message: empty chunks, and the end of its loop.                   *)
(***************************************************************************)
\* C29: chunk_message never returns an empty chunk: for every non-empty
\* text and max_size >= 1, every chunk of the returned list is at least one
\* character long, also for texts with a run of spaces or newlines at least
\* max_size long
C29_NoEmptyChunk ==
    (chunking = "returned" /\ text # "") =>
        \A i \in DOMAIN chunks : Len(chunks[i]) >= 1

\* C30: chunk_message terminates for every text and every max_size >= 1:
\* each iteration of its loop appends one chunk and either takes at least
\* one character off the remaining text or appends all of it and leaves the
\* loop, so the chunks counted with the characters still remaining never
\* exceed the length of the text and the returned list has at most as many
\* chunks as the text has characters
C30_ChunkingTerminates ==
    /\ [][(chunking = "loop" /\ remaining # "") =>
            /\ Len(chunks') = Len(chunks) + 1
            /\ \/ chunking' = "loop" /\ Len(remaining') < Len(remaining)
               \/ chunking' = "returned" /\ Last(chunks') = remaining]_vars
    /\ [](chunking = "loop" => Len(chunks) + Len(remaining) <= Len(text))
    /\ [](chunking = "returned" => Len(chunks) <= Len(text))
\* a text was cut into as many chunks as it has characters
C30_Witness ==
    /\ chunking = "returned" /\ text = "abab" /\ max_size = 1
    /\ chunks = <<"a", "b", "a", "b">>

=============================================================================
